---- MODULE Spec2Model ----
(***************************************************************************)
(* The single-ship game loop of src/pygame/asteroids_deluxe.py as a state  *)
(* machine.  One iteration of `while running` is: event handling, then,    *)
(* when not game_over, input, motion, collision resolution and the wave    *)
(* check, in program order.  pc is the position inside the iteration.      *)
(*                                                                         *)
(* Numbers.  Python floats are modelled in fixed point: every length and   *)
(* velocity is an integer count of tenths of a pixel (Px(1) = 10), enough  *)
(* to hold thrust_power 0.2 and the UFO wobble 0.1 exactly.  Products with *)
(* 0.99, 0.98 and with sines are rounded to the nearest tenth.  Draws of   *)
(* the random module are choices from small sample sets.  Rendering-only   *)
(* fields (Asteroid.polygon/rotation, Particle.size, PowerUp.pulse) and    *)
(* the colour scheme are left out: nothing in the loop reads them.         *)
(*                                                                         *)
(* Object identity.  list.remove and `in` compare objects by identity, so  *)
(* every asteroid, bullet, UFO bullet and power-up carries an id taken     *)
(* from nextId when it is constructed; ids are never reused.               *)
(***************************************************************************)
EXTENDS Integers, Sequences, FiniteSets, TLC

\* ------------------------------------------------------------------ bounds
\* Loop iterations explored from an initial state.
MaxFrames == 2

\* ------------------------------------------------------------- fixed point
Px(n) == n * 10

Abs(a) == IF a < 0 THEN -a ELSE a

\* a / b rounded to the nearest integer, halves away from zero (b > 0).
Round(a, b) == IF a >= 0 THEN (2 * a + b) \div (2 * b)
               ELSE -((2 * (-a) + b) \div (2 * b))

RECURSIVE SqrtSearch(_, _, _)
SqrtSearch(n, lo, hi) ==
    IF lo >= hi THEN lo
    ELSE LET mid == (lo + hi + 1) \div 2
         IN IF mid * mid <= n THEN SqrtSearch(n, mid, hi)
            ELSE SqrtSearch(n, lo, mid - 1)

\* floor(sqrt(n)) for 0 <= n < 2^30.
ISqrt(n) == SqrtSearch(n, 0, 32767)

\* 1000 * sin of 0, 5, ..., 90 degrees (Ship.rotation_speed is 5).
SinTable == <<0, 87, 174, 259, 342, 423, 500, 574, 643, 707,
              766, 819, 866, 906, 940, 966, 985, 996, 1000>>

\* 1000 * math.sin(math.radians(deg)) for deg a multiple of 5.
Sin1000(deg) ==
    LET a == deg % 360
    IN IF a <= 90 THEN SinTable[a \div 5 + 1]
       ELSE IF a <= 180 THEN SinTable[(180 - a) \div 5 + 1]
       ELSE IF a <= 270 THEN -SinTable[(a - 180) \div 5 + 1]
       ELSE -SinTable[(360 - a) \div 5 + 1]

Cos1000(deg) == Sin1000(deg + 90)

\* --------------------------------------------------------------- constants
WIDTH == Px(1200)
HEIGHT == Px(900)
CenterX == WIDTH \div 2
CenterY == HEIGHT \div 2

SHOOT_DELAY == 10
RAPID_FIRE_DELAY == 5
UFO_SPAWN_DELAY == 600
StartLives == 3
BaseCount == 4
InvulnerableTicks == 120
PowerUpTicks == 300
HyperspaceCooldown == 180
UfoScore == 500
BurstSize == 30

ShipRadius == Px(15)
BulletRadius == Px(3)
UfoRadius == Px(20)
PowerUpRadius == Px(15)
SafeZone == Px(150)

\* Asteroid.__init__: radius and points by size.
Radius(size) == IF size = "large" THEN Px(40)
                ELSE IF size = "medium" THEN Px(25) ELSE Px(15)

\* The score table upside down.
Points_Reversed(size) == IF size = "large" THEN 100
                         ELSE IF size = "medium" THEN 50 ELSE 20

Points(size) == IF size = "large" THEN 20
                ELSE IF size = "medium" THEN 50 ELSE 100

NoUfo == [live |-> FALSE]

\* ------------------------------------------------------------------- state
VARIABLES
    ship,            \* the Ship object bound to `ship`
    asteroids,       \* list of Asteroid
    bullets,         \* list of Bullet
    ufo_bullets,     \* list of UFOBullet
    particles,       \* list of Particle
    powerups,        \* list of PowerUp
    ufo,             \* the UFO, or NoUfo for None
    score, lives, wave, game_over,
    shoot_cooldown, ufo_spawn_timer,
    pc,              \* position in the loop body
    todo,            \* rest of the bullets[:] snapshot being iterated
    sounds,          \* sounds played so far in this iteration
    nextId,          \* next object identity
    frame,           \* loop iterations started
    since_jump,      \* history: ticks since the session's last honoured
                     \* hyperspace jump (0 in its own tick), -1 if none
    hit_since_jump,  \* history: a hit has replaced the ship since then
    fire_held,       \* history: keys[K_LCTRL] at the last input
    since_hit,       \* history: ticks since the session's last hit on the
                     \* ship (0 in its own tick, 121 for more), -1 if none
    carried_timer,   \* history: ufo_spawn_timer at the restart that began
                     \* the session, -1 in the first session
    since_restart,   \* history: ticks since that restart (1 in the iteration
                     \* of the restart), -1 in the first session
    game             \* game.py, the two-player variant: the state of its loop

\* The variables of asteroids_deluxe.py.
deluxe == <<ship, asteroids, bullets, ufo_bullets, particles, powerups, ufo,
            score, lives, wave, game_over, shoot_cooldown, ufo_spawn_timer,
            pc, todo, sounds, nextId, frame, since_jump, hit_since_jump,
            fire_held, since_hit, carried_timer, since_restart>>

vars == <<deluxe, game>>

\* Ship.__init__(x, y)
NewShip(x, y) ==
    [x |-> x, y |-> y, angle |-> 0, vx |-> 0, vy |-> 0,
     rapid_fire |-> FALSE, rapid_fire_timer |-> 0,
     shield |-> FALSE, shield_timer |-> 0,
     invulnerable |-> FALSE, invulnerable_timer |-> 0,
     hyperspace_cooldown |-> 0, is_thrusting |-> FALSE]

\* Particle.__init__
NewParticle(x, y, vx, vy, color_type, lifetime) ==
    [x |-> x, y |-> y, vx |-> vx, vy |-> vy,
     color_type |-> color_type, lifetime |-> lifetime]

\* Bullet.__init__ (UFOBullet inherits it): lifetime 60.
NewBullet(id, x, y, vx, vy) ==
    [id |-> id, x |-> x, y |-> y, vx |-> vx, vy |-> vy, lifetime |-> 60]

\* PowerUp.__init__: lifetime 600.
NewPowerUp(id, x, y, power_type) ==
    [id |-> id, x |-> x, y |-> y, power_type |-> power_type, lifetime |-> 600]

\* Asteroid.__init__ with the two random.uniform(-2, 2) draws given as v:
\* a component of magnitude below 0.5 becomes 1 or -1.
FixVel(c) == IF Abs(c) < 5 THEN (IF c >= 0 THEN Px(1) ELSE -Px(1)) ELSE c

NewAsteroid(id, x, y, size, v) ==
    [id |-> id, x |-> x, y |-> y, size |-> size,
     vx |-> FixVel(v[1]), vy |-> FixVel(v[2])]

Ids(list) == {list[i].id : i \in 1..Len(list)}

\* ------------------------------------------------------------ random draws
\* Samples of the two random.uniform(-2, 2) draws of Asteroid.__init__, in
\* tenths of a pixel per tick; the first has a component below 0.5.
VelDraws == << <<3, -20>>, <<-15, 8>>, <<12, 17>> >>

\* Samples of (random.randint(0, WIDTH), random.randint(0, HEIGHT)) in
\* spawn_asteroids; the second lies in the centre zone and is redrawn.
SpawnDraws == << <<Px(200), Px(150)>>, <<Px(600), Px(450)>>,
                 <<Px(1000), Px(700)>>, <<Px(600), Px(240)>>,
                 <<Px(449), Px(450)>> >>

\* Samples of (randint(100, WIDTH - 100), randint(100, HEIGHT - 100)) in
\* Ship.hyperspace_jump; the first is the world centre.
TeleportDraws == {<<Px(600), Px(450)>>, <<Px(600), Px(280)>>}

\* Sample of the two random.uniform(-1, 1) jitters of a thrust particle.
JitterDraw == <<5, -5>>

\* Samples of one split: which velocity draws the children get, and the
\* outcome of random.random() < 0.1 with random.choice of the power type.
HitDraws == {[v |-> 0, drop |-> "none"], [v |-> 1, drop |-> "rapid_fire"],
             [v |-> 1, drop |-> "shield"]}

\* Samples of UFO.__init__: side, |vx| in [1, 2], y, vy in [-1, 1].
UfoDraws == {[side |-> "left", speed |-> 15, y |-> Px(300), vy |-> 5],
             [side |-> "right", speed |-> 20, y |-> Px(450), vy |-> -10]}

\* Samples of random.uniform(-0.1, 0.1) in UFO.update.
WobbleDraws == {1}

\* Samples of random.uniform(-0.3, 0.3) in UFO.shoot_at, as the pair
\* 1000 * (cos, sin) of the angle: 0 and 0.3 radians.
AimDraws == {<<1000, 0>>, <<955, 296>>}

\* Samples of pygame.key.get_pressed(): the arrow keys, LCTRL, LSHIFT.
KeySnapshots == {{}, {"LCTRL"}, {"UP", "LEFT"}, {"LSHIFT", "RIGHT"}}

\* Samples of one iteration's pygame events; "other" stands for K_c and
\* K_F11, which touch only the display.
EventDraws == {"none", "SPACE", "other"}

\* The i-th particle of a burst: random angle and speed, spread by index.
BurstVel(i, speed) ==
    <<Round(Cos1000(i * 35) * speed, 1000), Round(Sin1000(i * 35) * speed, 1000)>>

\* -------------------------------------------------------------- geometry
\* math.sqrt(dx**2 + dy**2) < r, compared exactly on the squares.
Within(x1, y1, x2, y2, r) ==
    (x1 - x2) * (x1 - x2) + (y1 - y2) * (y1 - y2) < r * r

\* Asteroid.check_collision_bullet / UFO.check_collision_bullet
AsteroidHitsBullet(a, b) == Within(a.x, a.y, b.x, b.y, Radius(a.size) + BulletRadius)

UfoHitsBullet(u, b) == Within(u.x, u.y, b.x, b.y, UfoRadius + BulletRadius)

\* Asteroid.check_collision_ship / UFO.check_collision_ship /
\* PowerUp.check_collision_ship, and the inline UFO-bullet test.
AsteroidHitsShip(a, s) == Within(a.x, a.y, s.x, s.y, Radius(a.size) + ShipRadius)

UfoHitsShip(u, s) == Within(u.x, u.y, s.x, s.y, UfoRadius + ShipRadius)

PowerUpHitsShip(p, s) == Within(p.x, p.y, s.x, s.y, PowerUpRadius + ShipRadius)

UfoBulletHitsShip(b, s) == Within(s.x, s.y, b.x, b.y, ShipRadius + BulletRadius)

\* The wrap with its `< 0` branch left out.
Wrap_NoLowerEdge(c, limit) == IF c > limit THEN 0 ELSE c

\* The wrap of Ship.update, Bullet.update and Asteroid.update on one axis.
Wrap(c, limit) == IF c < 0 THEN limit ELSE IF c > limit THEN 0 ELSE c

\* ------------------------------------------------------------- list helpers
RECURSIVE FirstIndex(_, _)
\* Least i >= from with hits[i], or 0: the first match of a for loop whose
\* test gives hits[i] on the i-th object.
FirstIndex(hits, from) ==
    IF from > Len(hits) THEN 0
    ELSE IF hits[from] THEN from
    ELSE FirstIndex(hits, from + 1)

\* list.remove(list[i])
RemoveAt(list, i) == SubSeq(list, 1, i - 1) \o SubSeq(list, i + 1, Len(list))

\* A remove that is left out.
RemoveId_Keeps(list, id) == list

\* list.remove(obj) for an object known by its identity.
RemoveId(list, id) ==
    LET i == FirstIndex([k \in 1..Len(list) |-> list[k].id = id], 1)
    IN IF i = 0 THEN list ELSE RemoveAt(list, i)

\* create_explosion(x, y, particles, color_type): 30 particles, lifetime 40.
Explosion(x, y, color_type) ==
    [i \in 1..BurstSize |->
        NewParticle(x, y, BurstVel(i, Px(5))[1], BurstVel(i, Px(5))[2], color_type, 40)]

\* The bursts of Ship.hyperspace_jump: 30 'bright' particles, lifetime 40.
JumpBurst(x, y) ==
    [i \in 1..BurstSize |->
        NewParticle(x, y, BurstVel(i, Px(3))[1], BurstVel(i, Px(3))[2], "bright", 40)]

\* ---------------------------------------------------------------- spawning
\* The acceptance test of spawn_asteroids: not near the centre.
OutsideCentre(x, y) == Abs(x - CenterX) > SafeZone \/ Abs(y - CenterY) > SafeZone

\* The draws the `while True` loop of spawn_asteroids can end on.
AcceptedDraws ==
    LET Ok(p) == OutsideCentre(p[1], p[2]) IN SelectSeq(SpawnDraws, Ok)

\* spawn_asteroids without `+ (wave - 1)`.
SpawnAsteroids_FixedCount(count, size, w, base, firstId) ==
    [i \in 1..count |->
        LET p == AcceptedDraws[((base + i) % Len(AcceptedDraws)) + 1]
            v == VelDraws[((base + i) % Len(VelDraws)) + 1]
        IN NewAsteroid(firstId + i - 1, p[1], p[2], size, v)]

\* spawn_asteroids(count, size, wave): count + (wave - 1) asteroids, the
\* i-th from the (base + i)-th accepted position and velocity draw.
SpawnAsteroids(count, size, w, base, firstId) ==
    [i \in 1..(count + (w - 1)) |->
        LET p == AcceptedDraws[((base + i) % Len(AcceptedDraws)) + 1]
            v == VelDraws[((base + i) % Len(VelDraws)) + 1]
        IN NewAsteroid(firstId + i - 1, p[1], p[2], size, v)]

\* A split whose medium branch repeats the large one.
Split_MediumAgain(a, d, firstId) ==
    LET v1 == VelDraws[(d.v % Len(VelDraws)) + 1]
        v2 == VelDraws[((d.v + 1) % Len(VelDraws)) + 1]
    IN IF a.size \in {"large", "medium"}
       THEN <<NewAsteroid(firstId, a.x, a.y, "medium", v1),
              NewAsteroid(firstId + 1, a.x, a.y, "medium", v2)>>
       ELSE <<>>

\* Asteroid.split(): two of the next smaller size at the same place, none
\* for a small one.
Split(a, d, firstId) ==
    LET v1 == VelDraws[(d.v % Len(VelDraws)) + 1]
        v2 == VelDraws[((d.v + 1) % Len(VelDraws)) + 1]
    IN IF a.size = "large"
       THEN <<NewAsteroid(firstId, a.x, a.y, "medium", v1),
              NewAsteroid(firstId + 1, a.x, a.y, "medium", v2)>>
       ELSE IF a.size = "medium"
       THEN <<NewAsteroid(firstId, a.x, a.y, "small", v1),
              NewAsteroid(firstId + 1, a.x, a.y, "small", v2)>>
       ELSE <<>>

\* UFO.__init__
NewUfo(d) ==
    [live |-> TRUE,
     x |-> IF d.side = "left" THEN -Px(20) ELSE WIDTH + Px(20),
     vx |-> IF d.side = "left" THEN d.speed ELSE -d.speed,
     y |-> d.y, vy |-> d.vy, shoot_cooldown |-> 0]

\* ------------------------------------------------------------------- input
\* Ship.handle_input up to the hyperspace test: rotation and thrust.
Steer(s, keys) ==
    LET a == s.angle - (IF "LEFT" \in keys THEN 5 ELSE 0)
                     + (IF "RIGHT" \in keys THEN 5 ELSE 0)
        tvx == s.vx + Round(Sin1000(a) * 2, 1000)
        tvy == s.vy - Round(Cos1000(a) * 2, 1000)
        speed == ISqrt(tvx * tvx + tvy * tvy)
        capped == tvx * tvx + tvy * tvy > Px(8) * Px(8)
    IN IF "UP" \in keys
       THEN [s EXCEPT !.angle = a, !.is_thrusting = TRUE,
                      !.vx = IF capped THEN Round(tvx * Px(8), speed) ELSE tvx,
                      !.vy = IF capped THEN Round(tvy * Px(8), speed) ELSE tvy]
       ELSE [s EXCEPT !.angle = a, !.is_thrusting = FALSE]

\* Ship.spawn_thrust_particles when random.random() < 0.5.
ThrustParticle(s) ==
    NewParticle(s.x - Round(Sin1000(s.angle) * ShipRadius, 1000),
                s.y + Round(Cos1000(s.angle) * ShipRadius, 1000),
                s.vx - Round(Sin1000(s.angle) * Px(3), 1000) + JitterDraw[1],
                s.vy + Round(Cos1000(s.angle) * Px(3), 1000) + JitterDraw[2],
                "accent", 20)

\* handle_input with the cooldown test left out of the hyperspace branch.
Jumps_AnyTime(s, keys) == "LSHIFT" \in keys

\* Whether handle_input honours the hyperspace key.
Jumps(s, keys) == "LSHIFT" \in keys /\ s.hyperspace_cooldown <= 0

\* A jump with `self.vx = 0` and `self.vy = 0` left out.
Jump_KeepsVelocity(s, dest) ==
    [s EXCEPT !.x = dest[1], !.y = dest[2],
              !.hyperspace_cooldown = HyperspaceCooldown]

\* Ship.hyperspace_jump followed by the cooldown reset of handle_input.
Jump(s, dest) ==
    [s EXCEPT !.x = dest[1], !.y = dest[2], !.vx = 0, !.vy = 0,
              !.hyperspace_cooldown = HyperspaceCooldown]

\* Ship.shoot()
Shoot(s, id) ==
    NewBullet(id,
              s.x + Round(Sin1000(s.angle) * ShipRadius, 1000),
              s.y - Round(Cos1000(s.angle) * ShipRadius, 1000),
              s.vx + Round(Sin1000(s.angle) * Px(10), 1000),
              s.vy - Round(Cos1000(s.angle) * Px(10), 1000))

\* ------------------------------------------------------------------ motion
\* A countdown without its `> 0` guard.
CountDown_Unguarded(t) == t - 1

\* One countdown of Ship.update.
CountDown(t) == IF t > 0 THEN t - 1 ELSE t

\* Ship.update() with the `if self.invulnerable_timer == 0` left out.
UpdateShip_StaysInvulnerable(s) ==
    LET vx == Round(s.vx * 99, 100)
        vy == Round(s.vy * 99, 100)
    IN [s EXCEPT !.vx = vx, !.vy = vy,
                 !.x = Wrap(s.x + vx, WIDTH),
                 !.y = Wrap(s.y + vy, HEIGHT),
                 !.rapid_fire_timer = CountDown(s.rapid_fire_timer),
                 !.rapid_fire = IF s.rapid_fire_timer = 1 THEN FALSE ELSE s.rapid_fire,
                 !.shield_timer = CountDown(s.shield_timer),
                 !.shield = IF s.shield_timer = 1 THEN FALSE ELSE s.shield,
                 !.invulnerable_timer = CountDown(s.invulnerable_timer),
                 !.hyperspace_cooldown = CountDown(s.hyperspace_cooldown)]

\* Ship.update()
UpdateShip(s) ==
    LET vx == Round(s.vx * 99, 100)
        vy == Round(s.vy * 99, 100)
    IN [s EXCEPT !.vx = vx, !.vy = vy,
                 !.x = Wrap(s.x + vx, WIDTH),
                 !.y = Wrap(s.y + vy, HEIGHT),
                 !.rapid_fire_timer = CountDown(s.rapid_fire_timer),
                 !.rapid_fire = IF s.rapid_fire_timer = 1 THEN FALSE ELSE s.rapid_fire,
                 !.shield_timer = CountDown(s.shield_timer),
                 !.shield = IF s.shield_timer = 1 THEN FALSE ELSE s.shield,
                 !.invulnerable_timer = CountDown(s.invulnerable_timer),
                 !.invulnerable = IF s.invulnerable_timer = 1 THEN FALSE
                                  ELSE s.invulnerable,
                 !.hyperspace_cooldown = CountDown(s.hyperspace_cooldown)]

\* Particle.update()
UpdateParticle(p) ==
    [p EXCEPT !.x = p.x + p.vx, !.y = p.y + p.vy, !.lifetime = p.lifetime - 1,
              !.vx = Round(p.vx * 98, 100), !.vy = Round(p.vy * 98, 100)]

\* Bullet.update()
UpdateBullet(b) ==
    [b EXCEPT !.x = Wrap(b.x + b.vx, WIDTH), !.y = Wrap(b.y + b.vy, HEIGHT),
              !.lifetime = b.lifetime - 1]

\* Asteroid.update()
UpdateAsteroid(a) ==
    [a EXCEPT !.x = Wrap(a.x + a.vx, WIDTH), !.y = Wrap(a.y + a.vy, HEIGHT)]

\* PowerUp.update()
UpdatePowerUp(p) == [p EXCEPT !.lifetime = p.lifetime - 1]

\* is_expired() with `<` for `<=`: an entity at 0 stays for one more tick.
Alive_AtZero(e) == ~(e.lifetime < 0)

\* is_expired() of Particle, Bullet and PowerUp, negated.
Alive(e) == ~(e.lifetime <= 0)

\* `if e.is_expired(): list.remove(e)` over a list whose objects were updated.
Expire(list) == SelectSeq(list, Alive)

\* UFO.update: the move, the wobble and the clamp of vy.
MoveUfo(u, wobble) ==
    LET vy == u.vy + wobble
    IN [u EXCEPT !.x = u.x + u.vx, !.y = u.y + u.vy,
                 !.vy = IF vy < -Px(2) THEN -Px(2) ELSE IF vy > Px(2) THEN Px(2) ELSE vy]

\* The off-screen test made at the screen edges, without the margin of 50.
UfoOffScreen_AtEdge(u) == u.x < 0 \/ u.x > WIDTH

\* The off-screen test of UFO.update and of the main loop.
UfoOffScreen(u) == u.x < -Px(50) \/ u.x > WIDTH + Px(50)

\* UFO.shoot_at(target): speed 5 along the bearing turned by the aim draw.
ShootAt(u, target, aim, id) ==
    LET dx == target.x - u.x
        dy == target.y - u.y
        dist == ISqrt(dx * dx + dy * dy)
        ux == IF dist = 0 THEN 1000 ELSE Round(dx * 1000, dist)
        uy == IF dist = 0 THEN 0 ELSE Round(dy * 1000, dist)
        cx == Round(ux * aim[1] - uy * aim[2], 1000)
        cy == Round(ux * aim[2] + uy * aim[1], 1000)
    IN NewBullet(id, u.x, u.y, Round(cx * Px(5), 1000), Round(cy * Px(5), 1000))

\* ---------------------------------------------------- collision resolution
\* What collision resolution reads and writes, as one record.
World ==
    [ship |-> ship, asteroids |-> asteroids, bullets |-> bullets,
     ufo_bullets |-> ufo_bullets, particles |-> particles,
     powerups |-> powerups, ufo |-> ufo, score |-> score, lives |-> lives,
     game_over |-> game_over, sounds |-> sounds, nextId |-> nextId]

\* The guard with the shield left out.
Vulnerable_IgnoresShield(s) == ~s.invulnerable

\* The test of the ship checks without `not ship.invulnerable`.
Vulnerable_WhileInvulnerable(s) == ~s.shield

\* The guard of the three ship checks.
Vulnerable(s) == ~s.invulnerable /\ ~s.shield

\* The new ship without `ship.invulnerable = True` and its timer.
Respawn_Vulnerable == NewShip(CenterX, CenterY)

\* `ship = Ship(WIDTH//2, HEIGHT//2)` with the invulnerability set after it.
Respawn ==
    [NewShip(CenterX, CenterY) EXCEPT !.invulnerable = TRUE,
                                      !.invulnerable_timer = InvulnerableTicks]

\* Index of the first asteroid of the list the bullet overlaps, or 0.
AsteroidHitIndex(w, b) ==
    FirstIndex([i \in 1..Len(w.asteroids) |-> AsteroidHitsBullet(w.asteroids[i], b)], 1)

\* The body of the bullet loop with `not hit` left out of line 912: the UFO
\* is tested after an asteroid hit as well.
ResolveBullet_NoHitFlag(w, b, d) ==
    LET i == AsteroidHitIndex(w, b)
        a == w.asteroids[i]
        children == Split(a, d, w.nextId)
        id == w.nextId + Len(children)
        w1 == IF i = 0 THEN w
              ELSE [w EXCEPT !.bullets = RemoveId(w.bullets, b.id),
                             !.score = w.score + Points(a.size),
                             !.particles = w.particles \o Explosion(a.x, a.y, "accent"),
                             !.sounds = Append(w.sounds, "explosion"),
                             !.asteroids = RemoveAt(w.asteroids, i) \o children,
                             !.powerups = IF d.drop = "none" THEN w.powerups
                                          ELSE Append(w.powerups,
                                                      NewPowerUp(id, a.x, a.y, d.drop)),
                             !.nextId = IF d.drop = "none" THEN id ELSE id + 1]
    IN IF w1.ufo.live /\ UfoHitsBullet(w1.ufo, b)
       THEN [w1 EXCEPT !.bullets = RemoveId(w1.bullets, b.id),
                       !.score = w1.score + UfoScore,
                       !.particles = w1.particles \o Explosion(w1.ufo.x, w1.ufo.y, "bright"),
                       !.sounds = w1.sounds \o <<"explosion", "achievement">>,
                       !.ufo = NoUfo]
       ELSE w1

\* The body of `for bullet in bullets[:]` for one bullet b of the snapshot.
ResolveBullet(w, b, d) ==
    LET i == AsteroidHitIndex(w, b)
    IN IF i # 0
       THEN LET a == w.asteroids[i]
                children == Split(a, d, w.nextId)
                id == w.nextId + Len(children)
            IN [w EXCEPT !.bullets = RemoveId(w.bullets, b.id),
                         !.score = w.score + Points(a.size),
                         !.particles = w.particles \o Explosion(a.x, a.y, "accent"),
                         !.sounds = Append(w.sounds, "explosion"),
                         !.asteroids = RemoveAt(w.asteroids, i) \o children,
                         !.powerups = IF d.drop = "none" THEN w.powerups
                                      ELSE Append(w.powerups,
                                                  NewPowerUp(id, a.x, a.y, d.drop)),
                         !.nextId = IF d.drop = "none" THEN id ELSE id + 1]
       ELSE IF w.ufo.live /\ UfoHitsBullet(w.ufo, b)
       THEN [w EXCEPT !.bullets = RemoveId(w.bullets, b.id),
                      !.score = w.score + UfoScore,
                      !.particles = w.particles \o Explosion(w.ufo.x, w.ufo.y, "bright"),
                      !.sounds = w.sounds \o <<"explosion", "achievement">>,
                      !.ufo = NoUfo]
       ELSE w

RECURSIVE ResolveBullets(_, _, _)
\* The whole `for bullet in bullets[:]` loop over the snapshot.
ResolveBullets(w, snapshot, d) ==
    IF snapshot = <<>> THEN w
    ELSE ResolveBullets(ResolveBullet(w, Head(snapshot), d), Tail(snapshot), d)

\* A hit that never ends the game: the `if lives <= 0` left out.
LoseLife_NoGameOver(w) ==
    [w EXCEPT !.lives = w.lives - 1,
              !.particles = w.particles \o Explosion(w.ship.x, w.ship.y, "accent"),
              !.sounds = Append(w.sounds, "explosion"),
              !.ship = Respawn]

\* A hit that also takes the score, as the restart does.
LoseLife_ResetsScore(w) ==
    [w EXCEPT !.lives = w.lives - 1,
              !.score = 0,
              !.particles = w.particles \o Explosion(w.ship.x, w.ship.y, "accent"),
              !.sounds = Append(w.sounds, "explosion"),
              !.ship = Respawn,
              !.game_over = IF w.lives - 1 <= 0 THEN TRUE ELSE w.game_over]

\* What every unshielded hit does: a life, an explosion, a new ship.
LoseLife(w) ==
    [w EXCEPT !.lives = w.lives - 1,
              !.particles = w.particles \o Explosion(w.ship.x, w.ship.y, "accent"),
              !.sounds = Append(w.sounds, "explosion"),
              !.ship = Respawn,
              !.game_over = IF w.lives - 1 <= 0 THEN TRUE ELSE w.game_over]

\* Index of the first asteroid overlapping the ship when the check runs, or 0.
ShipAsteroidIndex(w) ==
    LET hits == [i \in 1..Len(w.asteroids) |-> AsteroidHitsShip(w.asteroids[i], w.ship)]
    IN IF Vulnerable(w.ship) THEN FirstIndex(hits, 1) ELSE 0

\* The ship-asteroid check with `asteroids.remove(asteroid)` left out.
ShipAsteroidCheck_KeepsAsteroid(w) ==
    IF ShipAsteroidIndex(w) = 0 THEN w ELSE LoseLife(w)

\* Check ship-asteroid collisions.
ShipAsteroidCheck(w) ==
    LET i == ShipAsteroidIndex(w)
    IN IF i = 0 THEN w
       ELSE [LoseLife(w) EXCEPT !.asteroids = RemoveAt(w.asteroids, i)]

\* Index of the first UFO bullet overlapping the ship when the check runs, or 0.
ShipUfoBulletIndex(w) ==
    LET hits == [i \in 1..Len(w.ufo_bullets) |-> UfoBulletHitsShip(w.ufo_bullets[i], w.ship)]
    IN IF Vulnerable(w.ship) THEN FirstIndex(hits, 1) ELSE 0

\* The UFO bullet check scoring the hit as if the ship had shot a UFO.
ShipUfoBulletCheck_Scores(w) ==
    LET i == ShipUfoBulletIndex(w)
    IN IF i = 0 THEN w
       ELSE [LoseLife(w) EXCEPT !.ufo_bullets = RemoveAt(w.ufo_bullets, i),
                                !.score = w.score + UfoScore]

\* Check UFO bullet-ship collisions.
ShipUfoBulletCheck(w) ==
    LET i == ShipUfoBulletIndex(w)
    IN IF i = 0 THEN w
       ELSE [LoseLife(w) EXCEPT !.ufo_bullets = RemoveAt(w.ufo_bullets, i)]

\* The ship-UFO condition without the test of the ship's invulnerability.
ShipUfoHit_Invulnerable(w) ==
    w.ufo.live /\ ~w.ship.shield /\ UfoHitsShip(w.ufo, w.ship)

\* The condition of the ship-UFO collision.
ShipUfoHit(w) ==
    w.ufo.live /\ Vulnerable(w.ship) /\ UfoHitsShip(w.ufo, w.ship)

\* Check ship-UFO collision: both explode.
ShipUfoCheck(w) ==
    IF ShipUfoHit(w)
    THEN [LoseLife(w) EXCEPT
            !.particles = w.particles \o Explosion(w.ship.x, w.ship.y, "accent")
                                      \o Explosion(w.ufo.x, w.ufo.y, "bright"),
            !.sounds = w.sounds \o <<"explosion", "explosion">>,
            !.ufo = NoUfo]
    ELSE w

\* Index of the first power-up overlapping the ship, or 0.
PowerUpIndex(w) ==
    FirstIndex([i \in 1..Len(w.powerups) |-> PowerUpHitsShip(w.powerups[i], w.ship)], 1)

\* The power-up check adding the duration to what is left of the timer.
PowerUpCheck_Stacks(w) ==
    LET i == PowerUpIndex(w)
    IN IF i = 0 THEN w
       ELSE [w EXCEPT
               !.powerups = RemoveAt(w.powerups, i),
               !.sounds = Append(w.sounds, "powerup"),
               !.ship = IF w.powerups[i].power_type = "rapid_fire"
                        THEN [w.ship EXCEPT !.rapid_fire = TRUE,
                                            !.rapid_fire_timer = @ + PowerUpTicks]
                        ELSE [w.ship EXCEPT !.shield = TRUE,
                                            !.shield_timer = @ + PowerUpTicks]]

\* Check power-up collisions: the first overlapping one is taken.
PowerUpCheck(w) ==
    LET i == PowerUpIndex(w)
    IN IF i = 0 THEN w
       ELSE [w EXCEPT
               !.powerups = RemoveAt(w.powerups, i),
               !.sounds = Append(w.sounds, "powerup"),
               !.ship = IF w.powerups[i].power_type = "rapid_fire"
                        THEN [w.ship EXCEPT !.rapid_fire = TRUE,
                                            !.rapid_fire_timer = PowerUpTicks]
                        ELSE [w.ship EXCEPT !.shield = TRUE,
                                            !.shield_timer = PowerUpTicks]]

\* Lines 884-1001 in program order, every split using the draw d.
Collide(w, d) ==
    PowerUpCheck(ShipUfoCheck(ShipUfoBulletCheck(ShipAsteroidCheck(
        ResolveBullets(w, w.bullets, d)))))

\* The assignments that store a World record back into the variables.
Becomes(w) ==
    /\ ship' = w.ship
    /\ asteroids' = w.asteroids
    /\ bullets' = w.bullets
    /\ ufo_bullets' = w.ufo_bullets
    /\ particles' = w.particles
    /\ powerups' = w.powerups
    /\ ufo' = w.ufo
    /\ score' = w.score
    /\ lives' = w.lives
    /\ game_over' = w.game_over
    /\ sounds' = w.sounds
    /\ nextId' = w.nextId

\* ------------------------------------------------------------------ actions
\* Where the loop goes once the bullets[:] snapshot has `rest` left.
AfterBullet(rest) == IF rest = <<>> THEN "ship_asteroid" ELSE "bullets"

\* A restart with `particles = []` left out.
Restart_KeepsParticles ==
    /\ pc = "events" /\ frame < MaxFrames /\ game_over
    /\ \E base \in {0, 1} :
         /\ asteroids' = SpawnAsteroids(BaseCount, "large", 1, base, nextId)
         /\ nextId' = nextId + BaseCount
    /\ ship' = NewShip(CenterX, CenterY)
    /\ bullets' = <<>> /\ ufo_bullets' = <<>>
    /\ powerups' = <<>> /\ ufo' = NoUfo
    /\ score' = 0 /\ lives' = StartLives /\ wave' = 1 /\ game_over' = FALSE
    /\ frame' = frame + 1 /\ sounds' = <<>> /\ pc' = "input"
    /\ UNCHANGED <<particles, shoot_cooldown, ufo_spawn_timer, todo>>
    /\ since_jump' = -1 /\ hit_since_jump' = FALSE /\ since_hit' = -1
    /\ carried_timer' = ufo_spawn_timer /\ since_restart' = 0
    /\ UNCHANGED <<game, fire_held>>

\* A restart that also resets the two counters of the game setup.
Restart_ResetsTimers ==
    /\ pc = "events" /\ frame < MaxFrames /\ game_over
    /\ \E base \in {0, 1} :
         /\ asteroids' = SpawnAsteroids(BaseCount, "large", 1, base, nextId)
         /\ nextId' = nextId + BaseCount
    /\ ship' = NewShip(CenterX, CenterY)
    /\ bullets' = <<>> /\ ufo_bullets' = <<>> /\ particles' = <<>>
    /\ powerups' = <<>> /\ ufo' = NoUfo
    /\ score' = 0 /\ lives' = StartLives /\ wave' = 1 /\ game_over' = FALSE
    /\ frame' = frame + 1 /\ sounds' = <<>> /\ pc' = "input"
    /\ shoot_cooldown' = 0 /\ ufo_spawn_timer' = 0 /\ UNCHANGED todo
    /\ since_jump' = -1 /\ hit_since_jump' = FALSE /\ since_hit' = -1
    /\ carried_timer' = ufo_spawn_timer /\ since_restart' = 0
    /\ UNCHANGED <<game, fire_held>>

\* Restart game: K_SPACE while game_over; the iteration then runs a tick.
\* shoot_cooldown and ufo_spawn_timer are not reassigned.
Restart ==
    /\ pc = "events" /\ frame < MaxFrames /\ game_over
    /\ \E base \in {0, 1} :
         /\ asteroids' = SpawnAsteroids(BaseCount, "large", 1, base, nextId)
         /\ nextId' = nextId + BaseCount
    /\ ship' = NewShip(CenterX, CenterY)
    /\ bullets' = <<>> /\ ufo_bullets' = <<>> /\ particles' = <<>>
    /\ powerups' = <<>> /\ ufo' = NoUfo
    /\ score' = 0 /\ lives' = StartLives /\ wave' = 1 /\ game_over' = FALSE
    /\ frame' = frame + 1 /\ sounds' = <<>> /\ pc' = "input"
    /\ UNCHANGED <<shoot_cooldown, ufo_spawn_timer, todo>>
    /\ since_jump' = -1 /\ hit_since_jump' = FALSE /\ since_hit' = -1
    /\ carried_timer' = ufo_spawn_timer /\ since_restart' = 0
    /\ UNCHANGED <<game, fire_held>>

\* An iteration in game over that still updates the particles: their loop
\* placed outside the `if not game_over` body.
GameOverFrame_Animates ==
    /\ pc = "events" /\ frame < MaxFrames /\ game_over
    /\ \E ev \in EventDraws \ {"SPACE"} : TRUE
    /\ particles' = Expire([i \in 1..Len(particles) |-> UpdateParticle(particles[i])])
    /\ frame' = frame + 1 /\ sounds' = <<>> /\ pc' = "events"
    /\ UNCHANGED <<ship, asteroids, bullets, ufo_bullets, powerups,
                   ufo, score, lives, wave, game_over, shoot_cooldown,
                   ufo_spawn_timer, todo, nextId>>
    /\ UNCHANGED <<since_jump, hit_since_jump, since_hit>>
    /\ UNCHANGED <<game, fire_held, carried_timer, since_restart>>

\* An iteration while game_over with no K_SPACE among its events: the
\* `if not game_over` body is skipped and only the screen is drawn.
GameOverFrame ==
    /\ pc = "events" /\ frame < MaxFrames /\ game_over
    /\ \E ev \in EventDraws \ {"SPACE"} : TRUE
    /\ frame' = frame + 1 /\ sounds' = <<>> /\ pc' = "events"
    /\ UNCHANGED <<ship, asteroids, bullets, ufo_bullets, particles, powerups,
                   ufo, score, lives, wave, game_over, shoot_cooldown,
                   ufo_spawn_timer, todo, nextId>>
    /\ UNCHANGED <<since_jump, hit_since_jump, since_hit>>
    /\ UNCHANGED <<game, fire_held, carried_timer, since_restart>>

\* Event handling while playing: no event changes the game (K_SPACE needs
\* game_over), and the tick begins.
PlayingFrame ==
    /\ pc = "events" /\ frame < MaxFrames /\ ~game_over
    /\ \E ev \in EventDraws : TRUE
    /\ frame' = frame + 1 /\ sounds' = <<>> /\ pc' = "input"
    /\ UNCHANGED <<ship, asteroids, bullets, ufo_bullets, particles, powerups,
                   ufo, score, lives, wave, game_over, shoot_cooldown,
                   ufo_spawn_timer, todo, nextId>>
    /\ UNCHANGED <<since_jump, hit_since_jump, since_hit>>
    /\ UNCHANGED <<game, fire_held, carried_timer, since_restart>>

\* The shooting test with `and shoot_cooldown <= 0` left out.
Fires_NoCooldown(keys, cooldown) == "LCTRL" \in keys

\* Shooting (LCTRL): the test.
Fires(keys, cooldown) == "LCTRL" \in keys /\ cooldown <= 0

\* ship.handle_input(keys, particles), then the shooting block.
Input ==
    /\ pc = "input"
    /\ \E keys \in KeySnapshots, dest \in TeleportDraws, coin \in BOOLEAN :
         LET s1 == Steer(ship, keys)
             trail == IF "UP" \in keys /\ coin THEN <<ThrustParticle(s1)>> ELSE <<>>
             jump == Jumps(s1, keys)
             s2 == IF jump THEN Jump(s1, dest) ELSE s1
             bursts == IF jump THEN JumpBurst(s1.x, s1.y) \o JumpBurst(s2.x, s2.y)
                       ELSE <<>>
             delay == IF s2.rapid_fire THEN RAPID_FIRE_DELAY ELSE SHOOT_DELAY
             fires == Fires(keys, shoot_cooldown)
             cd == IF fires THEN delay ELSE shoot_cooldown
         IN /\ ship' = s2
            /\ particles' = particles \o trail \o bursts
            /\ bullets' = IF fires THEN Append(bullets, Shoot(s2, nextId)) ELSE bullets
            /\ nextId' = IF fires THEN nextId + 1 ELSE nextId
            /\ sounds' = IF fires THEN Append(sounds, "laser") ELSE sounds
            /\ shoot_cooldown' = IF cd > 0 THEN cd - 1 ELSE cd
            /\ since_jump' = IF jump THEN 0
                             ELSE IF since_jump < 0 THEN since_jump
                             ELSE IF since_jump < HyperspaceCooldown
                             THEN since_jump + 1 ELSE since_jump
            /\ hit_since_jump' = IF jump THEN FALSE ELSE hit_since_jump
            /\ fire_held' = ("LCTRL" \in keys)
            /\ since_hit' = IF since_hit < 0 \/ since_hit > InvulnerableTicks
                            THEN since_hit ELSE since_hit + 1
            /\ since_restart' = IF since_restart < 0 THEN since_restart
                                ELSE since_restart + 1
            /\ UNCHANGED <<game, carried_timer>>
    /\ pc' = "update"
    /\ UNCHANGED <<asteroids, ufo_bullets, powerups, ufo, score, lives, wave,
                   game_over, ufo_spawn_timer, todo, frame>>

\* UFO.update without `self.shoot_cooldown = self.shoot_delay`: the UFO
\* fires on every update once its first cooldown has run out.
UpdateUfo_NoReset(u, s, wobble, aim, id) ==
    IF ~u.live THEN <<u, <<>>, <<>>>>
    ELSE LET m == MoveUfo(u, wobble)
             cd == m.shoot_cooldown - 1
         IN IF UfoOffScreen(m) THEN <<NoUfo, <<>>, <<>>>>
            ELSE IF cd <= 0
            THEN <<[m EXCEPT !.shoot_cooldown = cd],
                   <<ShootAt(m, s, aim, id)>>, <<"ufo_laser">>>>
            ELSE <<[m EXCEPT !.shoot_cooldown = cd], <<>>, <<>>>>

\* `if ufo:` of the main loop: ufo.update([ship]) with the ship already
\* updated, the append of its bullet, and the off-screen removal.
\* Gives <<the ufo, its new bullets, its sounds>>.
UpdateUfo(u, s, wobble, aim, id) ==
    IF ~u.live THEN <<u, <<>>, <<>>>>
    ELSE LET m == MoveUfo(u, wobble)
             cd == m.shoot_cooldown - 1
         IN IF UfoOffScreen(m) THEN <<NoUfo, <<>>, <<>>>>
            ELSE IF cd <= 0
            THEN <<[m EXCEPT !.shoot_cooldown = 90],
                   <<ShootAt(m, s, aim, id)>>, <<"ufo_laser">>>>
            ELSE <<[m EXCEPT !.shoot_cooldown = cd], <<>>, <<>>>>

\* Spawn UFO periodically, with `and not ufo` left out of the test.
Spawns_OverUfo(timer, u) == timer >= UFO_SPAWN_DELAY

\* Spawn UFO periodically: the test made on the incremented timer.
Spawns(timer, u) == timer >= UFO_SPAWN_DELAY /\ ~u.live

\* Lines 838-882: every update loop, the UFO and its spawn timer; then the
\* bullets[:] snapshot of the collision loop is taken.
Update ==
    /\ pc = "update"
    /\ \E wobble \in WobbleDraws, aim \in AimDraws, d \in UfoDraws :
         LET s == UpdateShip(ship)
             r == UpdateUfo(ufo, s, wobble, aim, nextId)
             timer == ufo_spawn_timer + 1
             spawns == Spawns(timer, r[1])
         IN /\ ship' = s
            /\ ufo_bullets' = Expire([i \in 1..Len(ufo_bullets) |-> UpdateBullet(ufo_bullets[i])]) \o r[2]
            /\ nextId' = nextId + Len(r[2])
            /\ sounds' = sounds \o r[3]
            /\ ufo' = IF spawns THEN NewUfo(d) ELSE r[1]
            /\ ufo_spawn_timer' = IF spawns THEN 0 ELSE timer
    /\ particles' = Expire([i \in 1..Len(particles) |-> UpdateParticle(particles[i])])
    /\ bullets' = Expire([i \in 1..Len(bullets) |-> UpdateBullet(bullets[i])])
    /\ asteroids' = [i \in 1..Len(asteroids) |-> UpdateAsteroid(asteroids[i])]
    /\ powerups' = Expire([i \in 1..Len(powerups) |-> UpdatePowerUp(powerups[i])])
    /\ todo' = bullets'
    /\ pc' = AfterBullet(bullets')
    /\ UNCHANGED <<score, lives, wave, game_over, shoot_cooldown, frame>>
    /\ UNCHANGED <<since_jump, hit_since_jump, since_hit>>
    /\ UNCHANGED <<game, fire_held, carried_timer, since_restart>>

\* One iteration of `for bullet in bullets[:]` whose bullet hits an asteroid.
BulletHitsAsteroid ==
    /\ pc = "bullets" /\ todo # <<>>
    /\ AsteroidHitIndex(World, Head(todo)) # 0
    /\ \E d \in HitDraws : Becomes(ResolveBullet(World, Head(todo), d))
    /\ todo' = Tail(todo) /\ pc' = AfterBullet(Tail(todo))
    /\ UNCHANGED <<wave, shoot_cooldown, ufo_spawn_timer, frame>>
    /\ UNCHANGED <<since_jump, hit_since_jump, since_hit>>
    /\ UNCHANGED <<game, fire_held, carried_timer, since_restart>>

\* One iteration whose bullet hits no asteroid and then hits the UFO.
BulletHitsUfo ==
    /\ pc = "bullets" /\ todo # <<>>
    /\ AsteroidHitIndex(World, Head(todo)) = 0
    /\ ufo.live /\ UfoHitsBullet(ufo, Head(todo))
    /\ \E d \in HitDraws : Becomes(ResolveBullet(World, Head(todo), d))
    /\ todo' = Tail(todo) /\ pc' = AfterBullet(Tail(todo))
    /\ UNCHANGED <<wave, shoot_cooldown, ufo_spawn_timer, frame>>
    /\ UNCHANGED <<since_jump, hit_since_jump, since_hit>>
    /\ UNCHANGED <<game, fire_held, carried_timer, since_restart>>

\* One iteration whose bullet hits nothing.
BulletMisses ==
    /\ pc = "bullets" /\ todo # <<>>
    /\ AsteroidHitIndex(World, Head(todo)) = 0
    /\ ~(ufo.live /\ UfoHitsBullet(ufo, Head(todo)))
    /\ \E d \in HitDraws : Becomes(ResolveBullet(World, Head(todo), d))
    /\ todo' = Tail(todo) /\ pc' = AfterBullet(Tail(todo))
    /\ UNCHANGED <<wave, shoot_cooldown, ufo_spawn_timer, frame>>
    /\ UNCHANGED <<since_jump, hit_since_jump, since_hit>>
    /\ UNCHANGED <<game, fire_held, carried_timer, since_restart>>

\* Check ship-asteroid collisions: an asteroid hits the ship.
ShipHitByAsteroid ==
    /\ pc = "ship_asteroid" /\ ShipAsteroidIndex(World) # 0
    /\ Becomes(ShipAsteroidCheck(World))
    /\ pc' = "ship_ufo_bullet"
    /\ UNCHANGED <<wave, shoot_cooldown, ufo_spawn_timer, todo, frame>>
    /\ UNCHANGED since_jump /\ hit_since_jump' = TRUE /\ since_hit' = 0
    /\ UNCHANGED <<game, fire_held, carried_timer, since_restart>>

\* Check ship-asteroid collisions: skipped, or nothing overlaps.
ShipClearOfAsteroids ==
    /\ pc = "ship_asteroid" /\ ShipAsteroidIndex(World) = 0
    /\ Becomes(ShipAsteroidCheck(World))
    /\ pc' = "ship_ufo_bullet"
    /\ UNCHANGED <<wave, shoot_cooldown, ufo_spawn_timer, todo, frame>>
    /\ UNCHANGED <<since_jump, hit_since_jump, since_hit>>
    /\ UNCHANGED <<game, fire_held, carried_timer, since_restart>>

\* Check UFO bullet-ship collisions: a UFO bullet hits the ship.
ShipHitByUfoBullet ==
    /\ pc = "ship_ufo_bullet" /\ ShipUfoBulletIndex(World) # 0
    /\ Becomes(ShipUfoBulletCheck(World))
    /\ pc' = "ship_ufo"
    /\ UNCHANGED <<wave, shoot_cooldown, ufo_spawn_timer, todo, frame>>
    /\ UNCHANGED since_jump /\ hit_since_jump' = TRUE /\ since_hit' = 0
    /\ UNCHANGED <<game, fire_held, carried_timer, since_restart>>

\* Check UFO bullet-ship collisions: skipped, or nothing overlaps.
ShipClearOfUfoBullets ==
    /\ pc = "ship_ufo_bullet" /\ ShipUfoBulletIndex(World) = 0
    /\ Becomes(ShipUfoBulletCheck(World))
    /\ pc' = "ship_ufo"
    /\ UNCHANGED <<wave, shoot_cooldown, ufo_spawn_timer, todo, frame>>
    /\ UNCHANGED <<since_jump, hit_since_jump, since_hit>>
    /\ UNCHANGED <<game, fire_held, carried_timer, since_restart>>

\* Check ship-UFO collision: they collide.
ShipHitByUfo ==
    /\ pc = "ship_ufo" /\ ShipUfoHit(World)
    /\ Becomes(ShipUfoCheck(World))
    /\ pc' = "powerup"
    /\ UNCHANGED <<wave, shoot_cooldown, ufo_spawn_timer, todo, frame>>
    /\ UNCHANGED since_jump /\ hit_since_jump' = TRUE /\ since_hit' = 0
    /\ UNCHANGED <<game, fire_held, carried_timer, since_restart>>

\* Check ship-UFO collision: skipped, or no overlap.
ShipClearOfUfo ==
    /\ pc = "ship_ufo" /\ ~ShipUfoHit(World)
    /\ Becomes(ShipUfoCheck(World))
    /\ pc' = "powerup"
    /\ UNCHANGED <<wave, shoot_cooldown, ufo_spawn_timer, todo, frame>>
    /\ UNCHANGED <<since_jump, hit_since_jump, since_hit>>
    /\ UNCHANGED <<game, fire_held, carried_timer, since_restart>>

\* Check power-up collisions: one is picked up.
PickUp ==
    /\ pc = "powerup" /\ PowerUpIndex(World) # 0
    /\ Becomes(PowerUpCheck(World))
    /\ pc' = "wave"
    /\ UNCHANGED <<wave, shoot_cooldown, ufo_spawn_timer, todo, frame>>
    /\ UNCHANGED <<since_jump, hit_since_jump, since_hit>>
    /\ UNCHANGED <<game, fire_held, carried_timer, since_restart>>

\* Check power-up collisions: none overlaps the ship.
NoPickUp ==
    /\ pc = "powerup" /\ PowerUpIndex(World) = 0
    /\ Becomes(PowerUpCheck(World))
    /\ pc' = "wave"
    /\ UNCHANGED <<wave, shoot_cooldown, ufo_spawn_timer, todo, frame>>
    /\ UNCHANGED <<since_jump, hit_since_jump, since_hit>>
    /\ UNCHANGED <<game, fire_held, carried_timer, since_restart>>

\* The wave check made only while the game is not over.
Cleared_WhilePlaying(w) == Len(w.asteroids) = 0 /\ ~w.game_over

\* The condition of the wave check, `len(asteroids) == 0`: it does not look
\* at game_over, which the ship checks of the same tick may have set.
Cleared(w) == Len(w.asteroids) = 0

\* New wave when all asteroids cleared; the iteration ends.
NewWave ==
    /\ pc = "wave" /\ Cleared(World)
    /\ \E base \in {0, 1} :
         asteroids' = SpawnAsteroids(BaseCount, "large", wave + 1, base, nextId)
    /\ wave' = wave + 1
    /\ sounds' = Append(sounds, "level_up")
    /\ nextId' = nextId + BaseCount + wave
    /\ pc' = "events"
    /\ UNCHANGED <<ship, bullets, ufo_bullets, particles, powerups, ufo, score,
                   lives, game_over, shoot_cooldown, ufo_spawn_timer, todo, frame>>
    /\ UNCHANGED <<since_jump, hit_since_jump, since_hit>>
    /\ UNCHANGED <<game, fire_held, carried_timer, since_restart>>

\* The wave check with asteroids left; the iteration ends.
SameWave ==
    /\ pc = "wave" /\ ~Cleared(World)
    /\ pc' = "events"
    /\ UNCHANGED <<ship, asteroids, bullets, ufo_bullets, particles, powerups,
                   ufo, score, lives, wave, game_over, shoot_cooldown,
                   ufo_spawn_timer, todo, sounds, nextId, frame>>
    /\ UNCHANGED <<since_jump, hit_since_jump, since_hit>>
    /\ UNCHANGED <<game, fire_held, carried_timer, since_restart>>

\* ------------------------------------------------- game.py, two players
\* The loop of game.py as far as the lives counters depend on it: the two
\* ships, the list active_ships built from them in every iteration, the
\* three ship collision checks, the power-up check and the wave check.
\* Positions of asteroids, UFO, bullets and power-ups are not kept: which
\* ship overlaps what is an input of each check.  ships[0] and ships[1] of
\* the source are players 1 and 2 here.
MaxTicks == 4

Players == {1, 2}

\* Ship(WIDTH//2 - 50, HEIGHT//2, 'arrows', ...) and
\* Ship(WIDTH//2 + 50, HEIGHT//2, 'wasd', ...)
StartShip(i) ==
    NewShip(IF i = 1 THEN CenterX - Px(50) ELSE CenterX + Px(50), CenterY)

\* Reset ship: a new ship by the controls of the old one, invulnerable.
ResetShip(i) ==
    [StartShip(i) EXCEPT !.invulnerable = TRUE,
                         !.invulnerable_timer = InvulnerableTicks]

\* `active_ships = [ships[0]]`, with ships[1] appended when multiplayer.
ActiveShips(g) ==
    [i \in 1..(IF g.multiplayer THEN 2 ELSE 1) |-> g.ships[i]]

\* Game setup.  `replaced` holds the players whose entry of active_ships is
\* a new object and no longer the ship of the list `ships`; `struck` and
\* `struck_before` are history: the players hit in this iteration and in
\* the one before it.
NewGame ==
    [ships |-> [i \in 1..2 |-> StartShip(i)],
     active_ships |-> <<StartShip(1)>>, replaced |-> {},
     struck |-> {}, struck_before |-> {},
     lives |-> <<StartLives, StartLives>>, wave |-> 1,
     game_over |-> FALSE, multiplayer |-> FALSE,
     pc |-> "events", tick |-> 0]

\* Toggle multiplayer: K_m while not game_over.
Toggled(g) == [g EXCEPT !.multiplayer = ~g.multiplayer]

\* Restart game: K_SPACE while game_over; multiplayer stays as it is.
Restarted(g) ==
    [g EXCEPT !.ships = [i \in 1..2 |-> StartShip(i)],
              !.lives = <<StartLives, StartLives>>, !.wave = 1,
              !.game_over = FALSE, !.struck = {}, !.struck_before = {}]

\* A change of the object active_ships[i]: it is ships[i] as well unless a
\* hit has put a new object in its place.
Mutate(g, i, s) ==
    [g EXCEPT !.active_ships[i] = s,
              !.ships[i] = IF i \in g.replaced THEN @ ELSE s]

\* `for ship in active_ships: ship.update()`; Ship.update of game.py is
\* that of asteroids_deluxe.py line by line.
UpdateShips(g) ==
    LET a == ActiveShips(g)
        u == [i \in DOMAIN a |-> UpdateShip(a[i])]
    IN [g EXCEPT !.active_ships = u, !.replaced = {},
                 !.struck = {}, !.struck_before = g.struck,
                 !.ships = [i \in 1..2 |-> IF i \in DOMAIN u THEN u[i] ELSE @[i]]]

\* What each of the three checks does to the ship it finds hit:
\* `lives[i] -= 1`, a new ship in active_ships[i], and game over when the
\* player is out of lives and either plays alone or nobody has lives left.
HitPlayer(g, i) ==
    LET left == [g.lives EXCEPT ![i] = @ - 1]
    IN [g EXCEPT !.lives = left,
                 !.active_ships[i] = ResetShip(i),
                 !.replaced = @ \cup {i}, !.struck = @ \cup {i},
                 !.game_over = IF left[i] <= 0
                                  /\ (~g.multiplayer \/ \A j \in 1..2 : left[j] <= 0)
                               THEN TRUE ELSE @]

\* One ship of the ship-asteroid loop: skipped when invulnerable or
\* shielded, hit when an asteroid overlaps it.
CheckPlayer(g, i, overlap) ==
    IF i \in DOMAIN g.active_ships /\ Vulnerable(g.active_ships[i]) /\ i \in overlap
    THEN HitPlayer(g, i) ELSE g

\* Check ship-asteroid collisions, ship by ship.
PlayersAsteroidCheck(g, overlap) == CheckPlayer(CheckPlayer(g, 1, overlap), 2, overlap)

\* Check UFO bullet-ship collisions: a bullet hits the first unprotected
\* ship it overlaps; `struck` are the ships some bullet finds that way.
PlayersUfoBulletCheck(g, struck) == CheckPlayer(CheckPlayer(g, 1, struck), 2, struck)

\* Check ship-UFO collision: the first unprotected ship overlapping the UFO
\* is hit and the loop breaks, the UFO being gone.
PlayersUfoCheck(g, overlap) ==
    LET c == {i \in DOMAIN g.active_ships :
                Vulnerable(g.active_ships[i]) /\ i \in overlap}
    IN IF c = {} THEN g
       ELSE HitPlayer(g, CHOOSE i \in c : \A j \in c : i <= j)

\* Check power-up collisions: the ship in active_ships[i] takes a power-up.
Collect(g, i, power_type) ==
    LET s == g.active_ships[i]
    IN Mutate(g, i, IF power_type = "rapid_fire"
                    THEN [s EXCEPT !.rapid_fire = TRUE,
                                   !.rapid_fire_timer = PowerUpTicks]
                    ELSE [s EXCEPT !.shield = TRUE,
                                   !.shield_timer = PowerUpTicks])

\* New wave when all asteroids cleared: the only place where the ships of
\* active_ships are written back to `ships`.
WaveCleared(g) ==
    [g EXCEPT !.wave = @ + 1,
              !.ships = [i \in 1..2 |-> IF i \in DOMAIN g.active_ships
                                        THEN g.active_ships[i] ELSE @[i]]]

\* Drawing while not game_over: `active_ships = [ships[0]]`, with ships[1]
\* when multiplayer.
Drawn(g) ==
    IF g.game_over THEN g
    ELSE [g EXCEPT !.active_ships = ActiveShips(g), !.replaced = {}]

\* Event handling: K_m toggles multiplayer while the game is not over.
ToggleMultiplayer ==
    /\ game.pc = "events" /\ game.tick < MaxTicks /\ ~game.game_over
    /\ game' = [Toggled(game) EXCEPT !.pc = "frame"]
    /\ UNCHANGED deluxe

\* Event handling: K_SPACE restarts a game that is over.
RestartPlayers ==
    /\ game.pc = "events" /\ game.tick < MaxTicks /\ game.game_over
    /\ game' = [Restarted(game) EXCEPT !.pc = "frame"]
    /\ UNCHANGED deluxe

\* Event handling: no key, or a key the state ignores.
NoEvent ==
    /\ game.pc = "events" /\ game.tick < MaxTicks
    /\ game' = [game EXCEPT !.pc = "frame"]
    /\ UNCHANGED deluxe

\* An iteration while game_over: both `if not game_over:` blocks are skipped.
GameOverScreen ==
    /\ game.pc = "frame" /\ game.game_over
    /\ game' = [Drawn(game) EXCEPT !.pc = "events", !.tick = @ + 1]
    /\ UNCHANGED deluxe

\* The first half of a playing iteration: active_ships, input, updates.
UpdatePlayers ==
    /\ game.pc = "frame" /\ ~game.game_over
    /\ game' = [UpdateShips(game) EXCEPT !.pc = "ship_asteroid", !.tick = @ + 1]
    /\ UNCHANGED deluxe

ShipAsteroidCollisions ==
    /\ game.pc = "ship_asteroid"
    /\ \E overlap \in SUBSET Players :
         game' = [PlayersAsteroidCheck(game, overlap) EXCEPT !.pc = "ship_ufo_bullet"]
    /\ UNCHANGED deluxe

UfoBulletShipCollisions ==
    /\ game.pc = "ship_ufo_bullet"
    /\ \E struck \in SUBSET Players :
         game' = [PlayersUfoBulletCheck(game, struck) EXCEPT !.pc = "ship_ufo"]
    /\ UNCHANGED deluxe

ShipUfoCollision ==
    /\ game.pc = "ship_ufo"
    /\ \E overlap \in SUBSET Players :
         game' = [PlayersUfoCheck(game, overlap) EXCEPT !.pc = "powerup"]
    /\ UNCHANGED deluxe

\* At most one power-up is within reach of a ship in an iteration.
PowerUpCollisions ==
    /\ game.pc = "powerup"
    /\ \/ game' = [game EXCEPT !.pc = "wave"]
       \/ \E i \in DOMAIN game.active_ships, power_type \in {"rapid_fire", "shield"} :
            game' = [Collect(game, i, power_type) EXCEPT !.pc = "wave"]
    /\ UNCHANGED deluxe

\* The wave check, then the drawing that ends the iteration.
WaveCheck ==
    /\ game.pc = "wave"
    /\ \E cleared \in BOOLEAN :
         game' = [Drawn(IF cleared THEN WaveCleared(game) ELSE game)
                    EXCEPT !.pc = "events"]
    /\ UNCHANGED deluxe

PlayersNext ==
    \/ ToggleMultiplayer \/ RestartPlayers \/ NoEvent
    \/ GameOverScreen \/ UpdatePlayers
    \/ ShipAsteroidCollisions \/ UfoBulletShipCollisions \/ ShipUfoCollision
    \/ PowerUpCollisions \/ WaveCheck

Next ==
    \/ Restart \/ GameOverFrame \/ PlayingFrame
    \/ Input \/ Update
    \/ BulletHitsAsteroid \/ BulletHitsUfo \/ BulletMisses
    \/ ShipHitByAsteroid \/ ShipClearOfAsteroids
    \/ ShipHitByUfoBullet \/ ShipClearOfUfoBullets
    \/ ShipHitByUfo \/ ShipClearOfUfo
    \/ PickUp \/ NoPickUp
    \/ NewWave \/ SameWave

\* Game setup, lines 757-783.
Init ==
    /\ ship = NewShip(CenterX, CenterY)
    /\ \E base \in {0, 1} : asteroids = SpawnAsteroids(BaseCount, "large", 1, base, 1)
    /\ bullets = <<>> /\ ufo_bullets = <<>> /\ particles = <<>> /\ powerups = <<>>
    /\ ufo = NoUfo
    /\ score = 0 /\ lives = StartLives /\ wave = 1 /\ game_over = FALSE
    /\ shoot_cooldown = 0 /\ ufo_spawn_timer = 0
    /\ pc = "events" /\ todo = <<>> /\ sounds = <<>>
    /\ nextId = BaseCount + 1 /\ frame = 0
    /\ since_jump = -1 /\ hit_since_jump = FALSE /\ fire_held = FALSE
    /\ carried_timer = -1 /\ since_restart = -1
    /\ since_hit = -1
    /\ game = NewGame

Spec == Init /\ [][Next]_vars

\* ------------------------------------------------------------------ scenes
\* Mid-session states at the top of the loop, from which SceneSpec starts:
\* a session reaches GameOver no sooner than 241 ticks after it starts and
\* sees its first UFO after 600, so the cases of collision resolution are
\* entered here directly.  Each scene is a state the loop can be in: the
\* ship sits at the world centre at rest with angle 0 (a fresh ship, or one
\* that jumped there), asteroids have component speeds in [0.5, 2], bullets
\* are in flight, a UFO has flown x + 20 pixels at its speed since the spawn
\* that zeroed ufo_spawn_timer, and score 170 is one asteroid of each size.
Rock(id, x, y, size, vx, vy) ==
    [id |-> id, x |-> Px(x), y |-> Px(y), size |-> size, vx |-> vx, vy |-> vy]

Shot(id, x, y, vx, vy, lifetime) ==
    [id |-> id, x |-> Px(x), y |-> Px(y), vx |-> vx, vy |-> vy, lifetime |-> lifetime]

Saucer(x, y, vx, vy, cd) ==
    [live |-> TRUE, x |-> Px(x), y |-> Px(y), vx |-> vx, vy |-> vy,
     shoot_cooldown |-> cd]

Pickup(id, x, y, power_type, lifetime) ==
    [id |-> id, x |-> Px(x), y |-> Px(y), power_type |-> power_type,
     lifetime |-> lifetime]

Scene(s, rocks, shots, ufoShots, pickups, u, timer) ==
    [ship |-> s, asteroids |-> rocks, bullets |-> shots, ufo_bullets |-> ufoShots,
     powerups |-> pickups, ufo |-> u, ufo_spawn_timer |-> timer]

Fresh == NewShip(CenterX, CenterY)
Shielded == [Fresh EXCEPT !.shield = TRUE, !.shield_timer = 100]
Respawned == [Respawn EXCEPT !.invulnerable_timer = 60]
Expiring == [Respawn EXCEPT !.invulnerable_timer = 1]
Boosted == [Fresh EXCEPT !.rapid_fire = TRUE, !.rapid_fire_timer = 50]
Jumped == [Fresh EXCEPT !.hyperspace_cooldown = 170]
\* Rapid fire with one tick left, a shield with two, and a jump 179 ticks ago.
Fading == [Fresh EXCEPT !.rapid_fire = TRUE, !.rapid_fire_timer = 1,
                        !.shield = TRUE, !.shield_timer = 2,
                        !.hyperspace_cooldown = 1]
\* A ship turned and moving, under rapid fire, ten ticks after a jump.
Veteran == [Fresh EXCEPT !.angle = 45, !.vx = 10, !.vy = -10,
                         !.rapid_fire = TRUE, !.rapid_fire_timer = 50,
                         !.hyperspace_cooldown = 170]
\* A ship one pixel from the left edge, drifting left at 3 pixels a tick.
Drifting == [Fresh EXCEPT !.x = Px(1), !.vx = -30]

FarRock == Rock(1, 200, 150, "large", 10, -20)
\* A large asteroid one tick from overlapping a ship at the centre.
ClosingRock == Rock(2, 600, 400, "large", 10, 10)
\* Four bullets one tick from the same spot, fired by a moving ship.
Volley == <<Shot(5, 600, 305, 0, -100, 47), Shot(6, 602, 303, 0, -120, 52),
            Shot(10, 624, 310, 0, -100, 50), Shot(11, 600, 323, 0, -100, 55)>>
\* A UFO bullet and a UFO one tick from overlapping a ship at the centre.
IncomingShot == <<Shot(7, 600, 470, 0, -50, 30)>>
RammingUfo == Saucer(570, 450, 10, 0, 41)
\* A UFO where the volley arrives.
HuntedUfo == Saucer(598, 290, 20, 5, 52)
\* A UFO at 1 pixel a tick after 599, 630 and 1270 updates: still crossing
\* when the spawn timer comes to 600, about to fire its eighth bullet, and
\* one update from leaving by the right edge.
LingeringUfo == Saucer(579, 200, 10, 0, 32)
FiringUfo == Saucer(610, 200, 10, 0, 1)
LeavingUfo == Saucer(1250, 200, 10, 0, 81)
\* What is left of an explosion: particles with one and two ticks to go.
Embers == <<NewParticle(Px(100), Px(800), 20, 0, "accent", 1),
            NewParticle(Px(120), Px(820), 0, -20, "accent", 2)>>

Scenes ==
    { \* an asteroid closes on the ship
      Scene(Fresh, <<ClosingRock, FarRock>>, <<>>, <<>>, <<>>, NoUfo, 200),
      \* the same under a shield, under invulnerability, and as it runs out
      Scene(Shielded, <<ClosingRock, FarRock>>, <<>>, IncomingShot, <<>>, RammingUfo, 590),
      Scene(Respawned, <<ClosingRock, FarRock>>, <<>>, IncomingShot, <<>>, RammingUfo, 590),
      Scene(Expiring, <<ClosingRock, FarRock>>, <<>>, <<>>, <<>>, NoUfo, 200),
      \* the last asteroid closes on the ship
      Scene(Fresh, <<ClosingRock>>, <<>>, <<>>, <<>>, NoUfo, 200),
      \* a volley reaches a large and a medium asteroid, and a UFO behind them
      Scene(Jumped, <<Rock(3, 599, 286, "large", 10, -10),
                      Rock(4, 610, 295, "medium", -10, -10), FarRock>>,
            Volley, <<>>, <<>>, HuntedUfo, 309),
      \* a volley reaches the last, small asteroid
      Scene(Jumped, <<Rock(3, 599, 286, "small", 10, -10)>>, Volley, <<>>, <<>>, NoUfo, 200),
      \* a volley reaches a UFO
      Scene(Jumped, <<FarRock>>, Volley, <<>>, <<>>, HuntedUfo, 309),
      \* a UFO bullet and the UFO close on the ship; the UFO alone
      Scene(Fresh, <<FarRock>>, <<>>, IncomingShot, <<>>, RammingUfo, 590),
      Scene(Fresh, <<FarRock>>, <<>>, <<>>, <<>>, RammingUfo, 590),
      \* two power-ups lie on the ship, rapid fire having 50 ticks left
      Scene(Boosted, <<FarRock>>, <<>>, <<>>,
            <<Pickup(8, 600, 450, "rapid_fire", 300), Pickup(9, 605, 452, "shield", 200)>>,
            NoUfo, 200),
      \* everything at once
      Scene(Fresh, <<ClosingRock, FarRock>>, Volley, IncomingShot,
            <<Pickup(8, 600, 450, "shield", 300)>>, RammingUfo, 590),
      \* a UFO is due
      Scene(Fresh, <<FarRock>>, <<>>, <<>>, <<>>, NoUfo, 599),
      \* an asteroid closes on the ship one tick before a UFO is due, and
      \* while a UFO is still crossing after the timer has passed 600
      Scene(Fresh, <<ClosingRock, FarRock>>, <<>>, <<>>, <<>>, NoUfo, 598),
      Scene(Fresh, <<ClosingRock, FarRock>>, <<>>, <<>>, <<>>, FiringUfo, 630),
      \* a UFO is due while the last one is still crossing, fires, leaves
      Scene(Fresh, <<FarRock>>, <<>>, <<>>, <<>>, LingeringUfo, 599),
      Scene(Fresh, <<FarRock>>, <<>>, <<>>, <<>>, FiringUfo, 630),
      Scene(Fresh, <<Rock(3, 900, 700, "small", -10, 5)>>, <<>>, <<>>, <<>>,
            LeavingUfo, 1270),
      \* the ship and an asteroid leave by the left edge, a bullet by the top
      Scene(Drifting, <<Rock(3, 0, 300, "medium", -10, 0)>>,
            <<Shot(5, 600, 3, 0, -100, 20)>>, <<>>, <<>>, NoUfo, 200),
      \* an asteroid closes on a ship with rapid fire and a jump cooldown,
      \* four ticks after its last shot
      [shoot_cooldown |-> 1]
        @@ Scene(Veteran, <<ClosingRock, FarRock>>, <<>>, <<>>, <<>>, NoUfo, 150),
      \* both power-ups run out, and with them a bullet, a UFO bullet, a
      \* power-up and two particles
      [particles |-> Embers]
        @@ Scene(Fading, <<FarRock>>, <<Shot(5, 300, 300, 0, -100, 1)>>,
                 <<Shot(7, 900, 700, 30, 0, 2)>>,
                 <<Pickup(8, 200, 700, "shield", 1)>>, NoUfo, 350) }

SceneInit ==
    \E sc \in Scenes, l \in 1..StartLives :
        /\ ship = sc.ship /\ asteroids = sc.asteroids /\ bullets = sc.bullets
        /\ ufo_bullets = sc.ufo_bullets /\ powerups = sc.powerups /\ ufo = sc.ufo
        /\ ufo_spawn_timer = sc.ufo_spawn_timer
        /\ particles = IF "particles" \in DOMAIN sc THEN sc.particles ELSE <<>>
        /\ score = 170 /\ lives = l /\ wave = 1 /\ game_over = FALSE
        /\ shoot_cooldown = IF "shoot_cooldown" \in DOMAIN sc
                            THEN sc.shoot_cooldown ELSE 0
        /\ pc = "events" /\ todo = <<>> /\ sounds = <<>>
        /\ nextId = 12 /\ frame = 0
        \* a cooldown of c at the start of a tick dates the jump 180 - c
        \* ticks back; that tick's input will make it 180 - c
        /\ since_jump = IF sc.ship.hyperspace_cooldown > 0
                        THEN 179 - sc.ship.hyperspace_cooldown ELSE -1
        /\ hit_since_jump = FALSE /\ fire_held = FALSE
        /\ carried_timer = -1 /\ since_restart = -1
        \* a timer of c at the start of a tick dates the hit 121 - c ticks
        \* back; that tick's input will make it 121 - c
        /\ since_hit = IF sc.ship.invulnerable_timer > 0
                       THEN 120 - sc.ship.invulnerable_timer ELSE -1
        /\ game = NewGame

SceneSpec == SceneInit /\ [][Next]_vars

\* game.py from its game setup on; asteroids_deluxe.py stands still.
PlayersInit ==
    /\ game = NewGame
    /\ ship = NewShip(CenterX, CenterY) /\ asteroids = <<>>
    /\ bullets = <<>> /\ ufo_bullets = <<>> /\ particles = <<>> /\ powerups = <<>>
    /\ ufo = NoUfo
    /\ score = 0 /\ lives = StartLives /\ wave = 1 /\ game_over = FALSE
    /\ shoot_cooldown = 0 /\ ufo_spawn_timer = 0
    /\ pc = "events" /\ todo = <<>> /\ sounds = <<>>
    /\ nextId = 1 /\ frame = 0
    /\ since_jump = -1 /\ hit_since_jump = FALSE /\ fire_held = FALSE
    /\ carried_timer = -1 /\ since_restart = -1
    /\ since_hit = -1

PlayersSpec == PlayersInit /\ [][PlayersNext]_vars

\* ------------------------------------------------------------------ claims
\* The steps of one tick that follow the ship-asteroid check.
AfterShipAsteroid == {"ship_ufo_bullet", "ship_ufo", "powerup", "wave"}

\* The ship was replaced after a hit and no update has run since.
JustRespawned ==
    ship.invulnerable /\ ship.invulnerable_timer = 120
    /\ ship.x = 6000 /\ ship.y = 4500

\* No asteroid that left the list comes back: every asteroid of the next
\* state was in the list or is a new object.
NoAsteroidReturns ==
    /\ \A id \in Ids(asteroids) : id < nextId
    /\ \A id \in Ids(asteroids') : id \in Ids(asteroids) \/ id >= nextId

\* What claim C1 asks of every step.
C1_Step ==
    /\ NoAsteroidReturns
    /\ (pc = "ship_asteroid" /\ lives >= 1
        /\ ~ship.invulnerable /\ ~ship.shield
        /\ \E i \in 1..Len(asteroids) : AsteroidHitsShip(asteroids[i], ship))
       => /\ lives' = lives - 1
          /\ JustRespawned' /\ ship'.invulnerable_timer > 0
          /\ Len(asteroids') = Len(asteroids) - 1
          /\ \E i \in 1..Len(asteroids) :
               /\ AsteroidHitsShip(asteroids[i], ship)
               /\ asteroids[i].id \notin Ids(asteroids')
               /\ \A j \in 1..(i - 1) : ~AsteroidHitsShip(asteroids[j], ship)
    /\ (pc \in AfterShipAsteroid /\ JustRespawned)
       => /\ lives' = lives
          /\ JustRespawned'

\* C1: when the ship-asteroid check runs with lives = L >= 1, the ship
\* neither invulnerable nor shielded and an asteroid overlapping it, the
\* check leaves lives = L - 1, the ship at the world centre and invulnerable
\* with timer 120 > 0, and the first overlapping asteroid out of the list;
\* the rest of the tick changes none of this and brings no asteroid back.
C1_ShipHitByObstacle == [][C1_Step]_vars

\* A tick has ended in which only the closing asteroid could hit the ship,
\* and did: a life is gone and the asteroid with it.
C1_Witness ==
    /\ pc = "events" /\ frame = 1 /\ ufo_spawn_timer = 201
    /\ lives = 2 /\ JustRespawned
    /\ 2 \notin Ids(asteroids) /\ score = 170

\* What the restart request and the `if not game_over` gate may touch.
Simulation ==
    <<ship, asteroids, bullets, ufo_bullets, particles, powerups, ufo,
      score, lives, wave, game_over, shoot_cooldown, ufo_spawn_timer>>

\* What claim C2 asks of every step.
C2_Step ==
    /\ lives \in 0..3 /\ (game_over <=> lives = 0)
    /\ lives' \in 0..3 /\ (game_over' <=> lives' = 0)
    /\ (~game_over /\ game_over')
       => /\ pc \in {"ship_asteroid", "ship_ufo_bullet", "ship_ufo"}
          /\ lives = 1 /\ lives' = 0
    /\ (game_over /\ ~game_over') => (pc = "events" /\ lives' = 3)
    /\ (pc = "events" /\ ~game_over) => UNCHANGED Simulation

\* C2: 0 <= lives <= 3 and game_over is true exactly when lives = 0;
\* game_over becomes true only in one of the three ship checks, which takes
\* lives from 1 to 0; it becomes false only by the restart at event
\* handling; and event handling while playing changes nothing.
C2_SessionStateMachine == [][C2_Step]_vars

\* The game ended in this tick: the last life went in a ship check.
C2_Witness ==
    /\ game_over /\ lives = 0 /\ pc = "events" /\ frame = 1
    /\ ship.invulnerable_timer = 120

\* What claim C3 asks of every step.
C3_Step ==
    (pc = "events" /\ game_over /\ game_over')
    => /\ UNCHANGED Simulation
       /\ sounds' = <<>>
       /\ pc' = "events"

\* C3: an iteration that starts and ends in game over changes nothing of the
\* simulation, whatever its events and keys, and plays no sound.
C3_GameOverTickIsNoOp == [][C3_Step]_vars

\* An iteration has passed in game over, the explosion of the last hit
\* still among the particles.
C3_Witness ==
    /\ game_over /\ pc = "events" /\ frame = 2 /\ sounds = <<>>
    /\ Len(particles) >= 30 /\ Len(asteroids) > 0

\* What claim C4 asks of every step.
C4_Step ==
    (game_over /\ ~game_over')
    => /\ score' = 0 /\ lives' = 3 /\ wave' = 1
       /\ ship'.x = 6000 /\ ship'.y = 4500 /\ ship'.vx = 0 /\ ship'.vy = 0
       /\ ship'.angle = 0
       /\ ~ship'.rapid_fire /\ ship'.rapid_fire_timer = 0
       /\ ~ship'.shield /\ ship'.shield_timer = 0
       /\ ~ship'.invulnerable /\ ship'.invulnerable_timer = 0
       /\ ship'.hyperspace_cooldown = 0
       /\ Len(asteroids') = 4
       /\ \A i \in 1..Len(asteroids') :
            /\ asteroids'[i].size = "large"
            /\ ~(Abs(asteroids'[i].x - 6000) <= 1500 /\ Abs(asteroids'[i].y - 4500) <= 1500)
       /\ ~ufo'.live
       /\ bullets' = <<>> /\ ufo_bullets' = <<>>
       /\ particles' = <<>> /\ powerups' = <<>>

\* C4: a restart honoured in game over gives score 0, lives 3, wave 1, a
\* fresh ship at the centre at rest with every timer 0 and flag false,
\* exactly 4 large asteroids none of which has both |x - WIDTH//2| <= 150
\* and |y - HEIGHT//2| <= 150, no UFO and no bullet, UFO bullet, particle
\* or power-up.
C4_RestartState == [][C4_Step]_vars

\* A restart has just been honoured: only a restart brings the score of a
\* scene back to 0.
C4_Witness ==
    /\ pc = "input" /\ frame = 2 /\ score = 0 /\ lives = 3 /\ ~game_over
    /\ Len(asteroids) = 4

\* What claim C5 asks of every step.
C5_Step ==
    (pc \in {"ship_asteroid", "ship_ufo_bullet", "ship_ufo"}
     /\ (ship.invulnerable \/ ship.shield))
    => /\ lives' = lives /\ ship' = ship
       /\ asteroids' = asteroids /\ ufo_bullets' = ufo_bullets /\ ufo' = ufo

\* C5: while the ship is invulnerable or shielded, the three ship checks
\* change neither lives nor the ship and remove no asteroid, UFO bullet or
\* UFO, whatever overlaps the ship.
C5_ProtectedShipSkipsChecks == [][C5_Step]_vars

\* The three checks have run on a shielded ship that an asteroid, a UFO
\* bullet and the UFO all overlap.
C5_Witness ==
    /\ pc = "powerup" /\ ship.shield /\ ~ship.invulnerable
    /\ \E i \in 1..Len(asteroids) : AsteroidHitsShip(asteroids[i], ship)
    /\ \E i \in 1..Len(ufo_bullets) : UfoBulletHitsShip(ufo_bullets[i], ship)
    /\ ufo.live /\ UfoHitsShip(ufo, ship)

\* The asteroids of this state that the next state no longer holds.
Gone == {i \in 1..Len(asteroids) : asteroids[i].id \notin Ids(asteroids')}

\* The asteroids of the next state that this state did not hold.
Born == {j \in 1..Len(asteroids') : asteroids'[j].id \notin Ids(asteroids)}

\* The asteroids the bullet whose turn it is overlaps.
Overlapped == {i \in 1..Len(asteroids) : AsteroidHitsBullet(asteroids[i], Head(todo))}

\* What claim C6 asks of every step.
C6_Step ==
    (pc = "bullets" /\ todo # <<>>)
    => /\ Overlapped = {} => asteroids' = asteroids
       /\ Overlapped # {} =>
            \E i \in Overlapped :
              LET a == asteroids[i]
              IN /\ Gone = {i}
                 /\ \A k \in 1..Len(asteroids) \ {i} :
                      \E j \in 1..Len(asteroids') : asteroids'[j] = asteroids[k]
                 /\ Cardinality(Born) = IF a.size = "small" THEN 0 ELSE 2
                 /\ \A j \in Born :
                      /\ asteroids'[j].x = a.x /\ asteroids'[j].y = a.y
                      /\ asteroids'[j].size =
                           IF a.size = "large" THEN "medium" ELSE "small"
                 /\ Len(asteroids') =
                      Len(asteroids) + IF a.size = "small" THEN -1 ELSE 1

\* C6: when a bullet overlaps an asteroid at its turn, one overlapped
\* asteroid leaves the list, every other asteroid stays as it is, and the
\* new asteroids are exactly 2 medium ones at its position if it was large,
\* exactly 2 small ones at its position if it was medium, none if it was
\* small: the count changes by +1, +1, -1.  A bullet that overlaps no
\* asteroid leaves the list alone.
C6_SplitConservation == [][C6_Step]_vars

\* The volley has destroyed a large, a medium and a small asteroid: of the
\* four children, both medium ones and one small one are left.
C6_Witness ==
    /\ pc = "ship_asteroid" /\ frame = 1
    /\ 3 \notin Ids(asteroids) /\ 4 \notin Ids(asteroids)
    /\ Cardinality({i \in 1..Len(asteroids) :
                      asteroids[i].id >= 12 /\ asteroids[i].size = "medium"}) = 2
    /\ Cardinality({i \in 1..Len(asteroids) :
                      asteroids[i].id >= 12 /\ asteroids[i].size = "small"}) = 1

\* What claim C7 asks of every step.
C7_Step ==
    /\ score >= 0 /\ score' >= 0
    /\ ~(game_over /\ ~game_over') => score' >= score

\* C7: the score is never negative, and no step but the restart lowers it.
C7_ScoreMonotone == [][C7_Step]_vars

\* The score has grown and a tick has ended.
C7_Witness == pc = "events" /\ frame = 2 /\ score > 170 /\ ~game_over

\* The value of the asteroid at index i of the list.
Value(i) ==
    IF asteroids[i].size = "large" THEN 20
    ELSE IF asteroids[i].size = "medium" THEN 50 ELSE 100

\* What claim C8 asks of every step.
C8_Step ==
    /\ NoAsteroidReturns
    /\ pc = "bullets"
       => /\ Cardinality(Gone) <= 1
          /\ score' - score =
               (IF Gone = {} THEN 0 ELSE Value(CHOOSE i \in Gone : TRUE))
               + (IF ufo.live /\ ~ufo'.live THEN 500 ELSE 0)
          /\ ~ufo.live => ~ufo'.live
    /\ (pc # "bullets" /\ ~(game_over /\ ~game_over')) => score' = score

\* C8: every step of the bullet loop adds to the score exactly the value
\* (large 20, medium 50, small 100) of the asteroid it removes, if any, plus
\* 500 if it removes the UFO; no other step of a tick changes the score; an
\* asteroid that left the list never returns and the bullet loop never
\* brings the UFO back: so a tick adds the sum over what its bullets
\* destroyed, each asteroid and the UFO counted once.
C8_ScoreIsSumOfKills == [][C8_Step]_vars

\* One bullet loop has destroyed a large, a medium and a small asteroid and
\* the UFO, two of its bullets having overlapped the large asteroid:
\* 170 + 20 + 50 + 100 + 500.
C8_Witness ==
    /\ pc = "ship_asteroid" /\ frame = 1 /\ score = 840
    /\ ~ufo.live /\ bullets = <<>>

\* What claim C9 asks of every step.
C9_Step ==
    (pc = "bullets" /\ todo # <<>>)
    => LET b == Head(todo)
           ufoGone == ufo.live /\ ~ufo'.live
       IN /\ Cardinality(Gone) + (IF ufoGone THEN 1 ELSE 0) <= 1
          /\ Overlapped # {} =>
               /\ \E i \in Overlapped :
                    Gone = {i} /\ \A j \in Overlapped : i <= j
               /\ ufo' = ufo
          /\ Overlapped = {} =>
               /\ Gone = {}
               /\ ufoGone <=> (ufo.live /\ UfoHitsBullet(ufo, b))
          /\ (Gone # {} \/ ufoGone) => b.id \notin Ids(bullets')
          /\ (Gone = {} /\ ~ufoGone) => bullets' = bullets
          /\ b.id \notin Ids(todo')

\* C9: the bullet whose turn it is removes at most one target; if it
\* overlaps asteroids, the one removed is the first of the list it overlaps
\* and the UFO is left alone; the UFO is removed only by a bullet that
\* overlaps no asteroid; a bullet that hit is out of the bullet list, a
\* bullet that missed stays, and neither has another turn in that tick.
C9_OneTargetPerBullet == [][C9_Step]_vars

\* The first bullet of the volley overlapped the large asteroid, the medium
\* one and the UFO: only the large asteroid, first in the list, is gone, and
\* the bullet with it.
C9_Witness ==
    /\ pc = "bullets" /\ frame = 1 /\ Len(todo) = 3
    /\ 5 \notin Ids(bullets) /\ 3 \notin Ids(asteroids)
    /\ \E i \in 1..Len(asteroids) :
         asteroids[i].id = 4 /\ AsteroidHitsBullet(asteroids[i], UpdateBullet(Volley[1]))
    /\ ufo.live /\ UfoHitsBullet(ufo, UpdateBullet(Volley[1]))

\* Collision resolution is about to run on what the updates left.
CollisionDue == pc \in {"bullets", "ship_asteroid"} /\ todo = bullets

\* A second run of lines 884-1001 on what a first run left removes no
\* asteroid, bullet, UFO bullet or UFO and changes neither lives nor score.
SecondRunSpares(w1, w2) ==
    /\ w2.asteroids = w1.asteroids
    /\ w2.bullets = w1.bullets
    /\ w2.ufo_bullets = w1.ufo_bullets
    /\ w2.ufo = w1.ufo
    /\ w2.lives = w1.lives
    /\ w2.score = w1.score

\* C10 as stated: a second run of collision resolution on the result of the
\* first removes no entity at all, power-ups included, and changes neither
\* lives nor score.
C10_SecondRunRemovesNothing ==
    CollisionDue
    => \A d1 \in HitDraws, d2 \in HitDraws :
         LET w1 == Collide(World, d1)
             w2 == Collide(w1, d2)
         IN SecondRunSpares(w1, w2) /\ w2.powerups = w1.powerups

\* C10 amended: a second run removes no asteroid, bullet, UFO bullet or UFO
\* and changes neither lives nor score; of the power-ups it takes at most
\* one, the first that still overlaps the ship, and none if none overlaps.
C10_SecondRunTakesOnlyPowerUp ==
    CollisionDue
    => \A d1 \in HitDraws, d2 \in HitDraws :
         LET w1 == Collide(World, d1)
             w2 == Collide(w1, d2)
             left == {i \in 1..Len(w1.powerups) : PowerUpHitsShip(w1.powerups[i], w1.ship)}
         IN /\ SecondRunSpares(w1, w2)
            /\ Ids(w2.powerups) \subseteq Ids(w1.powerups)
            /\ Len(w2.powerups) = Len(w1.powerups) - (IF left = {} THEN 0 ELSE 1)
            /\ \A i \in left : (\A j \in left : i <= j)
                                => w1.powerups[i].id \notin Ids(w2.powerups)

\* Collision resolution is due with bullets on asteroids and the UFO, an
\* asteroid, a UFO bullet and the UFO on the ship, and a power-up under it.
C10_Witness ==
    /\ CollisionDue /\ pc = "bullets" /\ frame = 1
    /\ \E i \in 1..Len(asteroids) : AsteroidHitsShip(asteroids[i], ship)
    /\ \E i \in 1..Len(powerups) : PowerUpHitsShip(powerups[i], ship)
    /\ ufo.live /\ UfoHitsShip(ufo, ship)
    /\ Collide(World, [v |-> 0, drop |-> "none"]).lives = lives - 1

\* (x, y) lies in [0, WIDTH) x [0, HEIGHT).
InsideHalfOpen(e) == 0 <= e.x /\ e.x < 12000 /\ 0 <= e.y /\ e.y < 9000

\* C11 as stated: at the end of every tick the ship, every bullet, every UFO
\* bullet and every asteroid has 0 <= x < WIDTH and 0 <= y < HEIGHT.
C11_WrapHalfOpen ==
    pc = "events"
    => /\ InsideHalfOpen(ship)
       /\ \A i \in 1..Len(bullets) : InsideHalfOpen(bullets[i])
       /\ \A i \in 1..Len(ufo_bullets) : InsideHalfOpen(ufo_bullets[i])
       /\ \A i \in 1..Len(asteroids) : InsideHalfOpen(asteroids[i])

\* C11 amended: at the end of every tick the ship, every bullet and every
\* asteroid has 0 <= x <= WIDTH and 0 <= y <= HEIGHT, and so has every UFO
\* bullet that has been updated at least once (lifetime below 60); a UFO
\* bullet of this tick still sits where the UFO was, which may be off screen.
C11_WrapClosed ==
    pc = "events"
    => /\ 0 <= ship.x /\ ship.x <= 12000 /\ 0 <= ship.y /\ ship.y <= 9000
       /\ \A i \in 1..Len(bullets) :
            /\ 0 <= bullets[i].x /\ bullets[i].x <= 12000
            /\ 0 <= bullets[i].y /\ bullets[i].y <= 9000
       /\ \A i \in 1..Len(asteroids) :
            /\ 0 <= asteroids[i].x /\ asteroids[i].x <= 12000
            /\ 0 <= asteroids[i].y /\ asteroids[i].y <= 9000
       /\ \A i \in 1..Len(ufo_bullets) :
            ufo_bullets[i].lifetime < 60
            => /\ 0 <= ufo_bullets[i].x /\ ufo_bullets[i].x <= 12000
               /\ 0 <= ufo_bullets[i].y /\ ufo_bullets[i].y <= 9000

\* A tick has ended with the ship and an asteroid wrapped onto x = WIDTH and
\* a bullet wrapped onto y = HEIGHT.
C11_Witness ==
    /\ pc = "events" /\ frame = 1
    /\ ship.x = WIDTH
    /\ \E i \in 1..Len(asteroids) : asteroids[i].x = WIDTH
    /\ \E i \in 1..Len(bullets) : bullets[i].y = HEIGHT

\* The flag of a timed modifier is true exactly while its timer is positive.
Paired(s) ==
    /\ s.rapid_fire_timer >= 0 /\ (s.rapid_fire <=> s.rapid_fire_timer > 0)
    /\ s.shield_timer >= 0 /\ (s.shield <=> s.shield_timer > 0)
    /\ s.invulnerable_timer >= 0 /\ (s.invulnerable <=> s.invulnerable_timer > 0)

\* What claim C12 asks of every step.
C12_Step ==
    /\ Paired(ship) /\ Paired(ship')
    /\ (pc = "update" /\ ship.rapid_fire_timer = 1)
       => (ship'.rapid_fire_timer = 0 /\ ~ship'.rapid_fire)
    /\ (pc = "update" /\ ship.shield_timer = 1)
       => (ship'.shield_timer = 0 /\ ~ship'.shield)
    /\ (pc = "update" /\ ship.invulnerable_timer = 1)
       => (ship'.invulnerable_timer = 0 /\ ~ship'.invulnerable)

\* C12: in every state each of rapid_fire_timer, shield_timer and
\* invulnerable_timer is >= 0 and its flag is true exactly when it is > 0;
\* the update that takes a timer from 1 to 0 clears the flag in that tick.
C12_FlagMatchesTimer == [][C12_Step]_vars

\* Rapid fire ran out in the first tick and the shield in the second.
C12_Witness ==
    /\ pc = "events" /\ frame = 2 /\ ufo_spawn_timer = 352
    /\ ~ship.rapid_fire /\ ship.rapid_fire_timer = 0
    /\ ~ship.shield /\ ship.shield_timer = 0

\* The step is the restart.
Restarts == game_over /\ ~game_over'

\* The step is a hit: the ship is replaced and a life is lost.
ShipIsHit == lives' < lives

\* The step picks up a power-up of the given type.
PicksUp(power_type) ==
    /\ pc = "powerup"
    /\ \E i \in 1..Len(powerups) :
         powerups[i].id \notin Ids(powerups') /\ powerups[i].power_type = power_type

\* The step is an input step that honours the hyperspace key: the two
\* bursts of 30 particles appear.
Teleports == pc = "input" /\ Len(particles') >= Len(particles) + 60

\* The timer goes from t to u by standing still or by the one countdown of
\* a tick.
Counts(t, u) == u = t \/ (pc = "update" /\ t > 0 /\ u = t - 1)

\* C13 as stated: but for the restart, each of the four countdowns of the
\* ship stands still or loses exactly 1 in the update of a tick, except in
\* a step with its own event: a pick-up of its type for rapid fire and
\* shield, an honoured teleport for the hyperspace cooldown, a hit for
\* invulnerability.
C13_TimersOnlyCountDown ==
    [][~Restarts =>
         /\ Counts(ship.rapid_fire_timer, ship'.rapid_fire_timer) \/ PicksUp("rapid_fire")
         /\ Counts(ship.shield_timer, ship'.shield_timer) \/ PicksUp("shield")
         /\ Counts(ship.invulnerable_timer, ship'.invulnerable_timer) \/ ShipIsHit
         /\ Counts(ship.hyperspace_cooldown, ship'.hyperspace_cooldown) \/ Teleports]_vars

\* What the amended claim C13 asks of every step.
C13_Step ==
    /\ \/ Counts(ship.rapid_fire_timer, ship'.rapid_fire_timer)
       \/ (PicksUp("rapid_fire") /\ ship'.rapid_fire_timer = 300)
       \/ ((ShipIsHit \/ Restarts) /\ ship'.rapid_fire_timer = 0)
    /\ \/ Counts(ship.shield_timer, ship'.shield_timer)
       \/ (PicksUp("shield") /\ ship'.shield_timer = 300)
       \/ ((ShipIsHit \/ Restarts) /\ ship'.shield_timer = 0)
    /\ \/ Counts(ship.invulnerable_timer, ship'.invulnerable_timer)
       \/ (ShipIsHit /\ ship'.invulnerable_timer = 120)
       \/ (Restarts /\ ship'.invulnerable_timer = 0)
    /\ \/ Counts(ship.hyperspace_cooldown, ship'.hyperspace_cooldown)
       \/ (Teleports /\ ship'.hyperspace_cooldown = 180)
       \/ ((ShipIsHit \/ Restarts) /\ ship'.hyperspace_cooldown = 0)
    /\ pc = "update"
       => /\ ship'.rapid_fire_timer = ship.rapid_fire_timer - (IF ship.rapid_fire_timer > 0 THEN 1 ELSE 0)
          /\ ship'.shield_timer = ship.shield_timer - (IF ship.shield_timer > 0 THEN 1 ELSE 0)
          /\ ship'.invulnerable_timer = ship.invulnerable_timer - (IF ship.invulnerable_timer > 0 THEN 1 ELSE 0)
          /\ ship'.hyperspace_cooldown = ship.hyperspace_cooldown - (IF ship.hyperspace_cooldown > 0 THEN 1 ELSE 0)

\* C13 amended: each of the four countdowns of the ship loses exactly 1 in
\* the update of a tick while positive and stays 0 once 0; otherwise it
\* changes only by its own event (pick-up to 300, honoured teleport to 180,
\* hit to 120) or because a hit or the restart replaces the ship, which puts
\* the rapid-fire, shield and hyperspace timers at 0; no timer grows without
\* its own event.
C13_TimersCountDownOrShipReplaced == [][C13_Step]_vars

\* A hit has replaced a ship that had rapid fire and a jump cooldown left:
\* both timers fell to 0 in one step.
C13_Witness ==
    /\ pc = "ship_ufo_bullet" /\ frame = 1 /\ ufo_spawn_timer = 151
    /\ JustRespawned
    /\ ship.rapid_fire_timer = 0 /\ ship.hyperspace_cooldown = 0

\* The wave check finds no asteroid and starts wave N + 1 with 4 + N large
\* asteroids outside the centre box; an asteroid list found empty during
\* collision resolution is still empty at the wave check.
WaveRefill ==
    /\ (pc = "wave" /\ Len(asteroids) = 0)
       => /\ wave' = wave + 1
          /\ Len(asteroids') = 4 + wave
          /\ \A i \in 1..Len(asteroids') :
               /\ asteroids'[i].size = "large"
               /\ ~(/\ Abs(asteroids'[i].x - 6000) <= 1500
                    /\ Abs(asteroids'[i].y - 4500) <= 1500)
    /\ (pc \in {"bullets", "ship_asteroid", "ship_ufo_bullet", "ship_ufo", "powerup"}
        /\ Len(asteroids) = 0)
       => Len(asteroids') = 0

\* C14 as stated: the tick in which the asteroid list becomes empty at wave
\* N ends with wave N + 1 and exactly 4 + N large asteroids, none with both
\* |x - WIDTH//2| <= 150 and |y - HEIGHT//2| <= 150; wave changes in no
\* other step and only by +1.
C14_WaveOnlyAdvances ==
    [][/\ WaveRefill
       /\ wave' # wave
          => (pc = "wave" /\ Len(asteroids) = 0 /\ wave' = wave + 1)]_vars

\* C14 amended: as stated, but the restart is a second step that changes
\* wave: it puts it back to 1.
C14_WaveAdvancesOrRestarts ==
    [][/\ WaveRefill
       /\ wave' # wave
          => \/ (pc = "wave" /\ Len(asteroids) = 0 /\ wave' = wave + 1)
             \/ (Restarts /\ wave' = 1)]_vars

\* The ship ran into the last asteroid: the tick ended in wave 2 with five
\* asteroids.
C14_Witness ==
    /\ pc = "events" /\ frame = 1 /\ wave = 2 /\ Len(asteroids) = 5
    /\ JustRespawned /\ score = 170

\* The power-ups overlapping the ship when the power-up check runs.
Touched == {i \in 1..Len(powerups) : PowerUpHitsShip(powerups[i], ship)}

\* The ship as the pick-up of a power-up of the given type must leave it.
Powered(s, power_type) ==
    IF power_type = "rapid_fire"
    THEN [s EXCEPT !.rapid_fire = TRUE, !.rapid_fire_timer = 300]
    ELSE [s EXCEPT !.shield = TRUE, !.shield_timer = 300]

\* The world with r ticks left on the ship's timer of the given type.
WithRemaining(power_type, r) ==
    IF power_type = "rapid_fire"
    THEN [World EXCEPT !.ship.rapid_fire = r > 0, !.ship.rapid_fire_timer = r]
    ELSE [World EXCEPT !.ship.shield = r > 0, !.ship.shield_timer = r]

\* What claim C15 asks of every step.
C15_Step ==
    (pc = "powerup" /\ Touched # {})
    => \E i \in Touched :
         /\ \A j \in Touched : i <= j
         /\ powerups[i].id \notin Ids(powerups')
         /\ Len(powerups') = Len(powerups) - 1
         /\ ship' = Powered(ship, powerups[i].power_type)
         /\ lives' = lives /\ score' = score
         /\ \A r \in 0..300 :
              LET w == WithRemaining(powerups[i].power_type, r)
              IN PowerUpCheck(w).ship = Powered(w.ship, powerups[i].power_type)

\* C15: when a power-up overlaps the ship at the power-up check, the first
\* such power-up leaves the list and the ship's timer of its type becomes
\* exactly 300 with its flag true, whatever was left of it (0..300; 49
\* gives 300, not 349); the other timer and flag, the rest of the ship,
\* lives and score are unchanged.
C15_PickUpSetsFullDuration == [][C15_Step]_vars

\* Rapid fire had 49 ticks left when the ship took the rapid-fire power-up:
\* it has 300, and the shield power-up still lies there.
C15_Witness ==
    /\ pc = "wave" /\ frame = 1
    /\ ship.rapid_fire /\ ship.rapid_fire_timer = 300 /\ ~ship.shield
    /\ 8 \notin Ids(powerups) /\ 9 \in Ids(powerups)

\* The input step honours the hyperspace key.
Honoured == pc = "input" /\ since_jump' = 0

\* The particles the step appends.
NewParticles == SubSeq(particles', Len(particles) + 1, Len(particles'))

\* How many of the appended particles are jump particles at (x, y).
JumpParticlesAt(x, y) ==
    Cardinality({i \in 1..Len(NewParticles) :
                   /\ NewParticles[i].x = x /\ NewParticles[i].y = y
                   /\ NewParticles[i].color_type = "bright"
                   /\ NewParticles[i].lifetime = 40})

\* C16 as stated: a hyperspace request in a tick that starts with cooldown 0
\* changes the ship's position and creates exactly 60 particles, 30 at the
\* old position and 30 at the new one, and after that tick the ship's
\* velocity is (0, 0) and the cooldown equals 180.
C16_TeleportLeavesCooldown180 ==
    [][/\ Honoured
          => /\ <<ship'.x, ship'.y>> # <<ship.x, ship.y>>
             /\ Len(particles') = Len(particles) + 60
             /\ JumpParticlesAt(ship.x, ship.y) = 30
             /\ JumpParticlesAt(ship'.x, ship'.y) = 30
       /\ (pc' = "events" /\ since_jump' = 0)
          => /\ ship'.vx = 0 /\ ship'.vy = 0
             /\ ship'.hyperspace_cooldown = 180]_vars

\* What the amended claim C16 asks of every step.
C16_Step ==
    /\ Honoured
       => /\ ship.hyperspace_cooldown = 0
          /\ 1000 <= ship'.x /\ ship'.x <= 11000
          /\ 1000 <= ship'.y /\ ship'.y <= 8000
          /\ ship'.vx = 0 /\ ship'.vy = 0
          /\ ship'.hyperspace_cooldown = 180
          /\ JumpParticlesAt(ship.x, ship.y) + JumpParticlesAt(ship'.x, ship'.y)
               = IF <<ship'.x, ship'.y>> = <<ship.x, ship.y>> THEN 120 ELSE 60
          /\ JumpParticlesAt(ship.x, ship.y) >= 30
          /\ JumpParticlesAt(ship'.x, ship'.y) >= 30
    /\ (pc \notin {"events", "input"} /\ since_jump = 0 /\ ~ShipIsHit)
       => /\ ship'.x = ship.x /\ ship'.y = ship.y
          /\ ship'.vx = 0 /\ ship'.vy = 0
    /\ (pc' = "events" /\ since_jump' = 0)
       => /\ ship'.vx = 0 /\ ship'.vy = 0
          /\ \/ ship'.hyperspace_cooldown = 179
             \/ (JustRespawned' /\ ship'.hyperspace_cooldown = 0)

\* C16 amended: a hyperspace request at cooldown 0 puts the ship on the
\* drawn position (x in 100..WIDTH-100, y in 100..HEIGHT-100, which may be
\* where it was), sets its velocity to (0, 0) and the cooldown to 180 and
\* creates 60 jump particles, 30 where the ship was and 30 where it is; the
\* rest of the tick leaves position and velocity alone unless the ship is
\* hit, and after the tick the velocity is (0, 0) and the cooldown is 179,
\* the update having counted it down, or 0 on the ship a hit put in place.
C16_TeleportLeavesCooldown179 == [][C16_Step]_vars

\* A drifting ship jumped and the tick has ended: it rests at the drawn
\* position with 179 ticks of cooldown left.
C16_Witness ==
    /\ pc = "events" /\ frame = 1 /\ since_jump = 0 /\ ufo_spawn_timer = 201
    /\ ship.x = 6000 /\ ship.y = 2800 /\ ship.vx = 0 /\ ship.vy = 0
    /\ ship.hyperspace_cooldown = 179
    /\ \E i \in 1..Len(asteroids) : asteroids[i].x = WIDTH

\* C17 as stated: a hyperspace request is honoured only when the cooldown
\* is 0 at input time, each honoured jump sets the cooldown to 180, and any
\* two honoured jumps of a session are at least 180 ticks apart.
C17_JumpsAreFarApart ==
    [][Honoured
       => /\ ship.hyperspace_cooldown = 0
          /\ ship'.hyperspace_cooldown = 180
          /\ since_jump >= 0 => since_jump + 1 >= 180]_vars

\* What the amended claim C17 asks of every step.
C17_Step ==
    /\ Honoured
       => /\ ship.hyperspace_cooldown = 0
          /\ ship'.hyperspace_cooldown = 180
          /\ (since_jump >= 0 /\ ~hit_since_jump) => since_jump + 1 >= 180
    /\ (pc = "input" /\ ship.hyperspace_cooldown > 0)
       => /\ since_jump' # 0
          /\ ship'.hyperspace_cooldown = ship.hyperspace_cooldown

\* C17 amended: a hyperspace request is honoured only when the cooldown is
\* 0 at input time (a request at a positive cooldown changes nothing of
\* it), each honoured jump sets the cooldown to 180, and two honoured jumps
\* of a session are at least 180 ticks apart unless a hit has replaced the
\* ship between them, the new ship starting with cooldown 0.
C17_JumpsAreFarApartUnlessHit == [][C17_Step]_vars

\* The second of two jumps 180 ticks apart has just been honoured, the ship
\* not having been hit in between.
C17_Witness ==
    /\ pc = "update" /\ since_jump = 0 /\ frame = 2 /\ ~hit_since_jump
    /\ ship.hyperspace_cooldown = 180 /\ ufo_spawn_timer = 351
    /\ lives = 2

\* The ship C18 describes: at the world centre, at rest, pointing up,
\* without buffs or cooldown, invulnerable for 120 ticks.
ShipAfterHit ==
    [x |-> 6000, y |-> 4500, angle |-> 0, vx |-> 0, vy |-> 0,
     rapid_fire |-> FALSE, rapid_fire_timer |-> 0,
     shield |-> FALSE, shield_timer |-> 0,
     invulnerable |-> TRUE, invulnerable_timer |-> 120,
     hyperspace_cooldown |-> 0, is_thrusting |-> FALSE]

\* The step belongs to the collision part of a tick in which the ship has
\* been hit: only there is the invulnerability timer 120 after the update.
AfterHitInTick ==
    /\ pc \in {"ship_ufo_bullet", "ship_ufo", "powerup", "wave"}
    /\ ship.invulnerable /\ ship.invulnerable_timer = 120

\* C18 as stated: every unshielded hit, by an asteroid, a UFO bullet or the
\* UFO, replaces the ship wholesale, and at the end of that tick the ship
\* is at the world centre with velocity (0, 0) and angle 0, rapid fire and
\* shield off with timers 0, hyperspace cooldown 0, and invulnerable with
\* timer 120.
C18_HitLeavesNoBuff ==
    [][/\ ShipIsHit => ship' = ShipAfterHit
       /\ AfterHitInTick => ship' = ship]_vars

\* What the amended claim C18 asks of every step.
C18_Step ==
    /\ ShipIsHit => ship' = ShipAfterHit
    /\ AfterHitInTick
       => \/ ship' = ship
          \/ \E power_type \in {"rapid_fire", "shield"} :
                /\ PicksUp(power_type)
                /\ ship' = Powered(ship, power_type)

\* C18 amended: every unshielded hit, by an asteroid, a UFO bullet or the
\* UFO, replaces the ship wholesale: the new ship is at the world centre
\* with velocity (0, 0) and angle 0, rapid fire and shield off with timers
\* 0, hyperspace cooldown 0, and invulnerable with timer 120, and nothing
\* of the old ship survives. It is still so at the end of that tick, except
\* that the new ship picks up a power-up lying at the centre in the same
\* tick, which turns that buff on with timer 300.
C18_HitReplacesShip == [][C18_Step]_vars

\* A turned, moving ship under rapid fire and with a running cooldown has
\* been hit, and the tick has ended with the new ship in its place.
C18_Witness ==
    /\ pc = "events" /\ frame = 1 /\ ufo_spawn_timer = 151
    /\ lives = 2 /\ ~game_over /\ ship = ShipAfterHit

\* C19: in game.py the lives counter of each of the two players is a
\* non-negative integer in every reachable state, also with multiplayer on
\* and one player at 0 lives while the other has lives left.
C19_LivesNeverNegative == \A i \in 1..2 : game.lives[i] \in Nat

\* The update step takes one tick off every entity of a list of identified
\* entities and removes those it brings to 0, and no others.
AgesByOne(old, new) ==
    \A i \in 1..Len(old) :
        IF old[i].lifetime - 1 <= 0
        THEN old[i].id \notin Ids(new)
        ELSE \E j \in 1..Len(new) :
                 new[j].id = old[i].id /\ new[j].lifetime = old[i].lifetime - 1

\* A step other than the update leaves the lifetime of every entity it
\* keeps as it is.
KeepsAge(old, new) ==
    \A i \in 1..Len(old), j \in 1..Len(new) :
        old[i].id = new[j].id => new[j].lifetime = old[i].lifetime

\* The lifetimes of a list, in order.
Lifetimes(list) == [i \in 1..Len(list) |-> list[i].lifetime]

\* A lifetime that has not run out.
StillToRun(n) == n > 0

\* Every entity of the list has between 1 and most ticks to go.
WithinLifetime(list, most) ==
    \A i \in 1..Len(list) : list[i].lifetime >= 1 /\ list[i].lifetime <= most

\* What claim C20 asks of every step.
C20_Step ==
    /\ pc = "update"
       => /\ AgesByOne(bullets, bullets')
          /\ AgesByOne(powerups, powerups')
          /\ AgesByOne(ufo_bullets, ufo_bullets')
          /\ Lifetimes(particles')
               = SelectSeq([i \in 1..Len(particles) |-> particles[i].lifetime - 1],
                           StillToRun)
    /\ pc \notin {"update", "events"}
       => /\ KeepsAge(bullets, bullets')
          /\ KeepsAge(powerups, powerups')
          /\ KeepsAge(ufo_bullets, ufo_bullets')
          /\ Len(particles') >= Len(particles)
          /\ SubSeq(particles', 1, Len(particles)) = particles
    /\ WithinLifetime(bullets', 60) /\ WithinLifetime(ufo_bullets', 60)
    /\ WithinLifetime(powerups', 600) /\ WithinLifetime(particles', 40)

\* C20: every bullet, UFO bullet, power-up and particle loses exactly one
\* tick of lifetime in the update of each playing tick and at no other
\* step, and leaves its list in the update that brings its lifetime to 0;
\* no list ever holds an entity with lifetime <= 0 or with more than the
\* lifetime it was made with (60, 60, 600, 40), so an entity is gone after
\* at most that many playing ticks.
C20_LifetimesRunOut == [][C20_Step]_vars

\* After one tick the bullet and the power-up that had one tick to go and
\* the first particle are gone, and the UFO bullet and the second particle
\* have one tick left.
C20_Witness ==
    /\ pc = "events" /\ frame = 1 /\ ufo_spawn_timer = 351
    /\ bullets = <<>> /\ powerups = <<>>
    /\ Lifetimes(ufo_bullets) = <<1>> /\ Lifetimes(particles) = <<1>>

\* The UFO of the next state was made by this step: it is at a spawn edge
\* and has not been updated.
UfoCreated ==
    /\ ufo'.live /\ ufo'.shoot_cooldown = 0
    /\ ufo'.x \in {-200, 12200}
    /\ ufo' # ufo

\* The update of this step moves the live UFO past an outer edge.
UfoLeaves ==
    /\ ufo.live
    /\ ufo.x + ufo.vx < -500 \/ ufo.x + ufo.vx > 12500

\* C21 as stated: the spawn timer advances by 1 per playing tick, is reset
\* to 0 in the tick it reaches 600, where a UFO is created only if none is
\* live, and so never exceeds 600.
C21_TimerResetsAt600 ==
    [][pc = "update"
       => /\ ufo_spawn_timer' = IF ufo_spawn_timer + 1 = 600 THEN 0
                                ELSE ufo_spawn_timer + 1
          /\ ufo_spawn_timer' <= 600
          /\ UfoCreated => ~ufo.live]_vars

\* What the amended claim C21 asks of every step.
C21_Step ==
    /\ pc = "update"
       => IF ufo_spawn_timer + 1 >= 600 /\ (~ufo.live \/ UfoLeaves)
          THEN ufo_spawn_timer' = 0 /\ UfoCreated
          ELSE ufo_spawn_timer' = ufo_spawn_timer + 1 /\ ~UfoCreated
    /\ pc # "update" => ufo_spawn_timer' = ufo_spawn_timer /\ ~UfoCreated

\* C21 amended: the spawn timer advances by 1 in the update of every
\* playing tick and at no other step; when the advanced timer is 600 or
\* more and no UFO is live after that tick's UFO update (none was, or the
\* live one has just left the screen), a UFO is created and the timer is
\* reset to 0; while a UFO is live the timer keeps counting beyond 600.
\* There is one UFO at most.
C21_TimerResetsWhenUfoSpawns == [][C21_Step]_vars

\* The timer has passed 600 while the UFO of the last spawn is crossing.
C21_Witness ==
    /\ pc = "events" /\ frame = 2 /\ ufo_spawn_timer = 601
    /\ ufo.live /\ ufo.x = 5810

\* A live UFO is within 50 pixels of the screen and flies at 1 to 2 pixels
\* a tick.
UfoInFlight(u) ==
    /\ u.x >= -500 /\ u.x <= 12500
    /\ (u.vx >= 10 /\ u.vx <= 20) \/ (u.vx >= -20 /\ u.vx <= -10)

\* What claim C22 asks of every step.
C22_Step ==
    /\ (pc = "update" /\ ufo.live /\ UfoLeaves)
       => /\ ~ufo'.live \/ UfoCreated
          /\ Ids(ufo_bullets') \subseteq Ids(ufo_bullets)
          /\ ufo.x + ufo.vx > 12500 => ufo.vx > 0
          /\ ufo.x + ufo.vx < -500 => ufo.vx < 0
    /\ (pc = "update" /\ ufo.live /\ ~UfoLeaves)
       => /\ ufo'.live
          /\ ufo'.x = ufo.x + ufo.vx /\ ufo'.vx = ufo.vx
    /\ (pc # "update" /\ ufo.live) => ufo' = ufo \/ ~ufo'.live
    /\ ufo'.live => UfoInFlight(ufo')

\* C22: a live UFO is never wrapped; every update adds its constant vx,
\* of 1 to 2 pixels a tick, to x, and the update that takes x below -50 or
\* above WIDTH + 50 removes it, on the side its velocity points to, without
\* a bullet being fired in that tick; no other step moves it.  So a UFO
\* that is not shot or rammed leaves after 1270 playing ticks at most.
C22_UfoLeavesUnwrapped == [][C22_Step]_vars

\* The UFO has left by the right edge without firing, and the overdue
\* spawn has put a new UFO in its place in the same tick.
C22_Witness ==
    /\ pc = "events" /\ frame = 1 /\ ufo_spawn_timer = 0
    /\ Len(asteroids) = 1 /\ asteroids[1].size = "small"
    /\ ufo.live /\ ufo.shoot_cooldown = 0 /\ ufo_bullets = <<>>

\* The UFO bullets the step creates.
NewUfoBullets == {i \in 1..Len(ufo_bullets') : ufo_bullets'[i].id \notin Ids(ufo_bullets)}

\* What claim C23 asks of every step.
C23_Step ==
    /\ (pc = "update" /\ ufo.live /\ ~UfoLeaves)
       => IF ufo.shoot_cooldown - 1 <= 0
          THEN /\ ufo'.shoot_cooldown = 90
               /\ \E i \in NewUfoBullets :
                    /\ NewUfoBullets = {i}
                    /\ ufo_bullets'[i].x = ufo'.x /\ ufo_bullets'[i].y = ufo'.y
                    /\ ufo_bullets'[i].lifetime = 60
          ELSE /\ ufo'.shoot_cooldown = ufo.shoot_cooldown - 1
               /\ NewUfoBullets = {}
    /\ ~(pc = "update" /\ ufo.live /\ ~UfoLeaves) => NewUfoBullets = {}
    /\ (ufo.live /\ ufo'.live /\ pc # "update")
       => ufo'.shoot_cooldown = ufo.shoot_cooldown
    /\ UfoCreated => ufo'.shoot_cooldown = 0
    /\ ufo'.live => ufo'.shoot_cooldown \in 0..90

\* C23: a UFO starts with cooldown 0, so its first update fires; an update
\* that finds the cooldown at 1 or 0 fires exactly one bullet from the
\* UFO's position and sets the cooldown to 90, any other update takes 1
\* off the cooldown and fires nothing, and no other step fires or touches
\* the cooldown: the shots of a UFO are 90 ticks apart.  The cooldown is
\* within 0..90 at every step, and a tick creates one UFO bullet at most.
C23_UfoFiresEvery90 == [][C23_Step]_vars

\* The UFO, 90 updates after its seventh shot, has fired again, and a tick
\* later its cooldown is at 89.
C23_Witness ==
    /\ pc = "events" /\ frame = 2 /\ ufo_spawn_timer = 632
    /\ ufo.live /\ ufo.shoot_cooldown = 89
    /\ Len(ufo_bullets) = 1 /\ ufo_bullets[1].lifetime = 59

\* The player bullets the step creates.
NewBullets == {i \in 1..Len(bullets') : bullets'[i].id \notin Ids(bullets)}

\* What claim C24 asks of every step.
C24_Step ==
    /\ pc = "input"
       => /\ Cardinality(NewBullets) <= 1
          /\ NewBullets # {} <=> (fire_held' /\ shoot_cooldown = 0)
          /\ shoot_cooldown'
               = IF NewBullets # {}
                 THEN (IF ship'.rapid_fire THEN 5 ELSE 10) - 1
                 ELSE IF shoot_cooldown > 0 THEN shoot_cooldown - 1 ELSE 0
    /\ pc # "input" => NewBullets = {} /\ shoot_cooldown' = shoot_cooldown
    /\ shoot_cooldown' \in 0..9

\* C24: only the input step of a tick creates a player bullet, and one at
\* most; it does so exactly when fire is held and the cooldown is 0, and
\* then leaves the cooldown at 9, or at 4 under rapid fire; otherwise it
\* takes 1 off a positive cooldown, and no other step touches it.  So with
\* fire held the next shot comes exactly 10 playing ticks after a shot
\* without rapid fire and 5 after one with it, never sooner than 5, and the
\* cooldown is never negative.
C24_FireIsRateLimited == [][C24_Step]_vars

\* Fire is held in the fifth tick after a shot under rapid fire: the ship,
\* which a hit has replaced in between, has just fired again, and without
\* rapid fire the cooldown is now at 9.
C24_Witness ==
    /\ pc = "update" /\ frame = 2 /\ ufo_spawn_timer = 151 /\ fire_held
    /\ lives = 2 /\ ~ship.rapid_fire /\ shoot_cooldown = 9
    /\ Len(bullets) = 1 /\ bullets[1].lifetime = 60

\* C25 as stated: after an unshielded hit in tick t the ship cannot lose a
\* life in the ticks t+1 through t+120.
C25_NoHitFor120Ticks ==
    [][ShipIsHit => since_hit = -1 \/ since_hit > 120]_vars

\* What the amended claim C25 asks of every step.
C25_Step ==
    /\ ShipIsHit => since_hit = -1 \/ since_hit >= 120
    /\ (pc = "update" /\ since_hit \in 1..119)
       => ship'.invulnerable /\ ship'.invulnerable_timer = 120 - since_hit
    /\ (pc = "update" /\ since_hit = 120) => ~ship'.invulnerable

\* C25 amended: after an unshielded hit in tick t the ship of that session
\* cannot lose a life in the ticks t+1 through t+119, whatever overlaps it:
\* the update of tick t+k leaves the timer at 120 - k.  The update of tick
\* t+120 ends the invulnerability before that tick's collision checks, so
\* from tick t+120 on the ship can be hit again.
C25_NoHitFor119Ticks == [][C25_Step]_vars

\* Sixty-one ticks after a hit an asteroid, a UFO bullet and the UFO have
\* reached the ship, and the tick has ended without the loss of a life.
C25_Witness ==
    /\ pc = "events" /\ frame = 1 /\ since_hit = 61 /\ ufo_spawn_timer = 591
    /\ ship.invulnerable /\ ship.invulnerable_timer = 59
    /\ lives = 2 /\ Len(asteroids) = 2 /\ Len(ufo_bullets) >= 1 /\ ufo.live

\* The ship C26 expects player i to have after the update of the tick that
\* follows a hit: the new ship at its spawn point, one tick into its
\* invulnerability.
ReplacementAfterUpdate(i) ==
    [x |-> IF i = 1 THEN 5500 ELSE 6500, y |-> 4500, angle |-> 0,
     vx |-> 0, vy |-> 0,
     rapid_fire |-> FALSE, rapid_fire_timer |-> 0,
     shield |-> FALSE, shield_timer |-> 0,
     invulnerable |-> TRUE, invulnerable_timer |-> 119,
     hyperspace_cooldown |-> 0, is_thrusting |-> FALSE]

\* C26: in game.py, after an unshielded hit on a player's ship the ship
\* simulated for that player in the following tick is the replacement made
\* by the hit, at its spawn point, at rest and invulnerable with the timer
\* of 120 running, so the player cannot lose another life in that tick.
C26_ReplacementIsSimulated ==
    [][/\ (game.pc = "frame" /\ game'.pc = "ship_asteroid")
          => \A i \in game.struck \cap DOMAIN game'.active_ships :
               game'.active_ships[i] = ReplacementAfterUpdate(i)
       /\ \A i \in 1..2 :
            game'.lives[i] < game.lives[i] => i \notin game.struck_before]_vars

\* The radius of an asteroid, in tenths of a pixel.
RadiusOf(a) ==
    IF a.size = "large" THEN 400 ELSE IF a.size = "medium" THEN 250 ELSE 150

\* The centre of e is less than reach away from the ship's.
Reaches(e, reach) ==
    (ship.x - e.x) * (ship.x - e.x) + (ship.y - e.y) * (ship.y - e.y)
      < reach * reach

\* The list new is the list old without its i-th element.
Without(old, new, i) ==
    new = SubSeq(old, 1, i - 1) \o SubSeq(old, i + 1, Len(old))

\* What claim C27 asks of every step.
C27_Step ==
    ShipIsHit
    => /\ score' = score /\ powerups' = powerups /\ bullets' = bullets
       /\ pc = "ship_asteroid"
          => /\ \E i \in 1..Len(asteroids) :
                  /\ Without(asteroids, asteroids', i)
                  /\ Reaches(asteroids[i], RadiusOf(asteroids[i]) + 150)
             /\ ufo_bullets' = ufo_bullets /\ ufo' = ufo
       /\ pc = "ship_ufo_bullet"
          => /\ \E i \in 1..Len(ufo_bullets) :
                  /\ Without(ufo_bullets, ufo_bullets', i)
                  /\ Reaches(ufo_bullets[i], 30 + 150)
             /\ asteroids' = asteroids /\ ufo' = ufo
       /\ pc = "ship_ufo"
          => /\ ufo.live /\ ~ufo'.live
             /\ asteroids' = asteroids /\ ufo_bullets' = ufo_bullets
       /\ pc \in {"ship_asteroid", "ship_ufo_bullet", "ship_ufo"}

\* C27: a hit on the ship changes neither the score nor the power-ups nor
\* the player's bullets; a hit by an asteroid takes exactly that asteroid
\* out of the list and adds none, whatever its size, a hit by a UFO bullet
\* takes out exactly that bullet, a hit by the UFO removes the UFO, and
\* each leaves the other two alone.
C27_ShipHitsScoreNothing == [][C27_Step]_vars

\* The ship has rammed the UFO: the UFO is gone, the score, the asteroid
\* and the UFO bullets are as they were.
C27_Witness ==
    /\ pc = "powerup" /\ since_hit = 0 /\ frame = 1 /\ ufo_spawn_timer = 591
    /\ ~ufo.live /\ score = 170 /\ powerups = <<>>
    /\ Len(asteroids) = 1 /\ asteroids[1].id = 1 /\ ufo_bullets = <<>>

\* What claim C28 asks of every step.
C28_Step ==
    /\ lives' >= lives - 1
    /\ ShipIsHit
       => /\ since_hit # 0
          /\ ship'.invulnerable /\ ship'.invulnerable_timer = 120
          /\ Len(asteroids') >= Len(asteroids) - 1
          /\ Len(ufo_bullets') >= Len(ufo_bullets) - 1
    /\ (since_hit = 0 /\ pc \in {"ship_ufo_bullet", "ship_ufo", "powerup"})
       => /\ ship.invulnerable
          /\ asteroids' = asteroids \/ pc = "powerup"
          /\ ufo_bullets' = ufo_bullets /\ ufo' = ufo

\* C28: lives goes down by at most 1 in a tick, whatever overlaps the ship:
\* no step takes more than one life, and a step that takes one is the first
\* of its tick to do so and leaves the new ship invulnerable, so that the
\* checks still to run in that tick take nothing.  Ship contact removes at
\* most one asteroid and at most one UFO bullet in a tick.
C28_OneLifePerTick == [][C28_Step]_vars

\* An asteroid has cost the ship a life; the remaining ship checks of the
\* tick have run with a UFO bullet and the UFO on the new ship, and have
\* taken neither a life nor the bullet nor the UFO.
C28_Witness ==
    /\ pc = "powerup" /\ since_hit = 0 /\ frame = 1 /\ lives = 2
    /\ ship.invulnerable /\ ship.invulnerable_timer = 120
    /\ ufo.live /\ Reaches(ufo, 200 + 150)
    /\ \E i \in 1..Len(ufo_bullets) : Reaches(ufo_bullets[i], 30 + 150)
    /\ Ids(asteroids) = {1}

\* What claim C29 asks of every step.
C29_Step ==
    /\ pc' = "events" => Len(asteroids') > 0
    /\ (pc = "wave" /\ Len(asteroids) = 0)
       => /\ wave' = wave + 1 /\ game_over' = game_over
          /\ Len(asteroids') = BaseCount + wave

\* C29: every tick ends with asteroids in the list, the tick that sets
\* game_over included: the wave check, the last step of the tick, finds an
\* empty list whether or not the game is over, adds 1 to wave and fills the
\* list with 4 + (wave - 1) asteroids of the new wave.
C29_TickEndsWithAsteroids == [][C29_Step]_vars

\* The last asteroid has taken the last life: the tick has ended with the
\* game over, in wave 2, with the five asteroids of that wave.
C29_Witness ==
    /\ pc = "events" /\ frame = 1 /\ game_over /\ lives = 0
    /\ wave = 2 /\ Len(asteroids) = 5 /\ since_hit = 0 /\ score = 170

\* The larger of two numbers.
Larger(a, b) == IF a >= b THEN a ELSE b

\* C30 as stated: the restart leaves ufo_spawn_timer and shoot_cooldown as
\* they are, neither advances while the game is over, and the first UFO of
\* the new session appears 600 minus the carried-over timer ticks after the
\* restart.
C30_FirstUfoAt600LessCarried ==
    [][/\ game_over
          => ufo_spawn_timer' = ufo_spawn_timer /\ shoot_cooldown' = shoot_cooldown
       /\ (UfoCreated /\ since_restart \in 1..600)
          => since_restart = 600 - carried_timer]_vars

\* What the amended claim C30 asks of every step.
C30_Step ==
    /\ game_over
       => ufo_spawn_timer' = ufo_spawn_timer /\ shoot_cooldown' = shoot_cooldown
    /\ (pc = "update" /\ since_restart \in 1..600)
       => (UfoCreated <=> since_restart = Larger(1, 600 - carried_timer))

\* C30 amended: the restart leaves ufo_spawn_timer and shoot_cooldown as
\* they are and neither advances while the game is over, so the first UFO
\* of the new session appears in tick 600 - c of that session, c being the
\* carried-over timer and the iteration of the restart being tick 1; a
\* timer carried over at 600 or more, left by a UFO that was still
\* crossing when the game ended, brings the UFO in tick 1.
C30_FirstUfoAfterRestart == [][C30_Step]_vars

\* The game ended with the timer at 631 under a crossing UFO; the restart
\* removed that UFO and the first tick of the new session has created one.
C30_Witness ==
    /\ pc = "bullets" /\ since_restart = 1 /\ carried_timer = 631
    /\ ufo.live /\ ufo_spawn_timer = 0 /\ lives = 3 /\ score = 0

====
